---- MODULE Spec2Model ----
(***************************************************************************)
(* MZHV: per-core EPT mapping engine and its VM-exit handlers.             *)
(*                                                                         *)
(* The model follows vmexit.c, ept.c, page_swapper.c, context.h and vmm.c. *)
(* Guest-physical addresses are integers; every modelled address lies in   *)
(* PML4 entry 0 / PDPT entry 0, so one page directory per core is kept,    *)
(* restricted to the PD entries PdIndices, and each page table is kept for   *)
(* the PT entries PtIndices.                                               *)
(***************************************************************************)
EXTENDS Integers, Sequences, FiniteSets, TLC

(* ----------------------------- program constants ----------------------- *)
CONTEXT_EPT_NO_SPLITS == 32
CONTEXT_EPT_MAX_MAPPINGS == 32
EPT_PT_ENTRIES == 512
PAGE_SIZE == 4096
VMEXIT_VMCALL_MAP_PAGE == 987959
VMEXIT_VMCALL_UNMAP_PAGE == 991543
\* basic exit reasons
VMEXIT_CPUID == 10
VMEXIT_VMCALL == 18
VMEXIT_EPT_VIOLATION == 48
\* A UINT64 wider than the integers of the model is kept as its two halves,
\* bits 63:32 and bits 31:0, each read as an INT32.
UINT64(lower) == [upper |-> 0, lower |-> lower]
\* 0xFFFFFFFF00000000
VMEXIT_VMCALL_INITIATE_SHUTDOWN == [upper |-> -1, lower |-> 0]
EPT_PAGING_STRUCTURE_MEMORY_TYPE_WB == 6
EPT_PAGE_WALK_LEN == 4
EPT_WINDOWS_MAX_PML4_COUNT == 4
IA32_CPUID_BASIC_INFORMATION_0 == 0
IA32_CPUID_BASIC_INFORMATION_1 == 1
\* CTL_CODE(FILE_DEVICE_UNKNOWN, 0x1337 / 0x2137, METHOD_BUFFERED, FILE_ANY_ACCESS)
DRIVER_MAP == 2247900
DRIVER_UNMAP == 2262236
\* sizeof(PVOID)
SIZEOF_PVOID == 8
IA32_MTRR_MEMORY_TYPE_UC == 0
IA32_MTRR_MEMORY_TYPE_WC == 1
IA32_MTRR_MEMORY_TYPE_WT == 4
IA32_MTRR_MEMORY_TYPE_WP == 5
IA32_MTRR_MEMORY_TYPE_WB == 6
IA32_MTRR_MEMORY_TYPE_ERR == 65535
IA32_MTRR_DISABLED_DEFAULT_TYPE == IA32_MTRR_MEMORY_TYPE_UC
\* width of the memoryType bit-field of EPT_PdE2MB and EPT_PtE
EPT_MEMORY_TYPE_BITS == 3
FIXED_MTRR_LEAVES == 256

\* NTSTATUS values, as the INT32 they are: 0x00000000, 0xC0000001,
\* 0xC000000D, 0xC0000010
STATUS_SUCCESS == 0
STATUS_UNSUCCESSFUL == -1073741823
STATUS_INVALID_PARAMETER == -1073741811
STATUS_INVALID_DEVICE_REQUEST == -1073741808
NT_SUCCESS(ntStatus) == ntStatus >= 0
\* no I/O request was completed, no status was assigned
IRP_NONE == -1

BSOD_NONE == "none"
BSOD_VMEXIT_UNKNOWN == "BSOD_VMEXIT_UNKNOWN"
BSOD_VMEXIT_EPT_NO_MAPPING == "BSOD_VMEXIT_EPT_NO_MAPPING"
BSOD_VMEXIT_EPT_UNKNOWN == "BSOD_VMEXIT_EPT_UNKNOWN"
BSOD_MEMORY_VA_CONVERSION == "BSOD_MEMORY_VA_CONVERSION"
\* the hypervisor walks memory that is no paging structure of its own; what
\* the system does from there on is not followed
FOREIGN_MEMORY_WALK == "foreign memory walk"

(* ----------------------------- bounds ----------------------------------- *)
\* the physical-address widths of the modelled processors
MinPhysicalAddressBits == 36
MaxPhysicalAddressBits == 52
\* most logical cores a modelled machine has
MaxLogicalCores == 2
\* number of distinct guest pages the caller of the control device uses
MaxFill == 33
\* number of low-numbered guest pages that guest code touches
MaxTouched == 1
\* the caller releases its latest page only while it holds at most this
\* many pages, or at least CONTEXT_EPT_MAX_MAPPINGS - 1
MaxLowRelease == 2
\* number of page frames of the caller that installs any of its frames in
\* any role
MaxAliasFrames == 3
\* number of variable-range MTRRs of a machine (IA32_MTRRCAP)
MaxVariableMtrrs == 2
\* number of pages the caller installs on the machine whose guest leaves to
\* the hypervisor for every reason
MaxExitFill == 1

\* The caller's page number i lies in 2 MiB region Region(i): its first
\* CONTEXT_EPT_MAX_MAPPINGS - 1 pages lie in regions of their own, page number
\* CONTEXT_EPT_MAX_MAPPINGS shares the region of page 1 (as its second triple
\* of 4 KiB pages, Round 1), and every later page lies in a further region.
Region(i) ==
  IF i < CONTEXT_EPT_MAX_MAPPINGS THEN i
  ELSE IF i = CONTEXT_EPT_MAX_MAPPINGS THEN 1
  ELSE i - 1
Round(i) == IF i = CONTEXT_EPT_MAX_MAPPINGS THEN 1 ELSE 0
PdIndices == 0 .. (MaxFill - 1)
PtIndices == 0 .. (3 * Round(CONTEXT_EPT_MAX_MAPPINGS) + 2)
MappingIndices == 0 .. (CONTEXT_EPT_MAX_MAPPINGS - 1)
SplitIndices == 0 .. (CONTEXT_EPT_NO_SPLITS - 1)

(* ----------------------------- EPT_Address ------------------------------ *)
\* union EPT_Address: offset:12, ptEntry:9, pdEntry:9, pageFrameNumber4KB:52
Offset(address) == address % PAGE_SIZE
PageFrameNumber4KB(address) == address \div PAGE_SIZE
PtEntry(address) == (address \div PAGE_SIZE) % EPT_PT_ENTRIES
PdEntry(address) == (address \div (PAGE_SIZE * EPT_PT_ENTRIES)) % EPT_PT_ENTRIES
PageBase(address) == address - Offset(address)
AddressOf(pdEntry, ptEntry) == (pdEntry * EPT_PT_ENTRIES + ptEntry) * PAGE_SIZE

(* ----------------------------- hardware facts --------------------------- *)
\* memory type searchVariableMtrrs yields when no variable MTRR covers an
\* address: the default type of IA32_MTRR_DEF_TYPE
MtrrDefaultMemoryType == IA32_MTRR_MEMORY_TYPE_WB
\* memory type held by the bytes of the fixed-range MTRRs
FixedMtrrMemoryType == IA32_MTRR_MEMORY_TYPE_WT
\* a type field of IA32_MTRR_PHYSBASE that is none of UC, WC, WT, WP, WB
UndefinedMemoryType == 2

\* the cache fillVariableMtrrsCache fills from the variable-range MSRs:
\* entry i is zero when the mask of MTRR i is not valid
VariableMtrrIndices == 0 .. (MaxVariableMtrrs - 1)
ZeroVariableMtrr == [baseAddress |-> 0, length |-> 0, memoryType |-> 0, valid |-> FALSE]
NoVariableMtrrs == [i \in VariableMtrrIndices |-> ZeroVariableMtrr]
\* the ranges and types of the valid variable MTRRs of the modelled machines:
\* the first 2 MiB, the first 4 MiB, the second 2 MiB
VariableMtrrValues ==
  {ZeroVariableMtrr}
  \cup {[baseAddress |-> range[1], length |-> range[2], memoryType |-> type, valid |-> TRUE] :
          range \in {<<0, AddressOf(1, 0)>>, <<0, AddressOf(2, 0)>>,
                     <<AddressOf(1, 0), AddressOf(1, 0)>>},
          type \in {IA32_MTRR_MEMORY_TYPE_UC, IA32_MTRR_MEMORY_TYPE_WC,
                    IA32_MTRR_MEMORY_TYPE_WT, IA32_MTRR_MEMORY_TYPE_WP,
                    IA32_MTRR_MEMORY_TYPE_WB, UndefinedMemoryType}}

\* machines whose MTRRs are enabled, with no valid variable MTRR
PlainMachines ==
  {[mtrr |-> TRUE, mtrrEnable |-> TRUE, fixedMtrr |-> f,
    defaultMemoryType |-> MtrrDefaultMemoryType, variableMtrrs |-> NoVariableMtrrs,
    physicalAddressBits |-> 46, frame0Virtual |-> FALSE] :
     f \in BOOLEAN}
\* machines with any variable MTRRs, and a machine without MTRRs
MtrrMachines ==
  {[mtrr |-> TRUE, mtrrEnable |-> e, fixedMtrr |-> f,
    defaultMemoryType |-> d, variableMtrrs |-> v,
    physicalAddressBits |-> 46, frame0Virtual |-> FALSE] :
     e \in BOOLEAN, f \in BOOLEAN,
     d \in {IA32_MTRR_MEMORY_TYPE_UC, IA32_MTRR_MEMORY_TYPE_WB},
     v \in [VariableMtrrIndices -> VariableMtrrValues]}
  \cup {[mtrr |-> FALSE, mtrrEnable |-> FALSE, fixedMtrr |-> FALSE,
         defaultMemoryType |-> IA32_MTRR_MEMORY_TYPE_UC, variableMtrrs |-> NoVariableMtrrs,
         physicalAddressBits |-> 46, frame0Virtual |-> FALSE]}
\* machines of every physical-address width CPUID.80000008h reports, on
\* which MmGetVirtualForPhysical knows or does not know physical frame 0
WideMachines ==
  {[mtrr |-> TRUE, mtrrEnable |-> TRUE, fixedMtrr |-> f,
    defaultMemoryType |-> MtrrDefaultMemoryType, variableMtrrs |-> NoVariableMtrrs,
    physicalAddressBits |-> w, frame0Virtual |-> v] :
     f \in BOOLEAN, w \in MinPhysicalAddressBits .. MaxPhysicalAddressBits, v \in BOOLEAN}

(* ----------------------------- memory ----------------------------------- *)
\* Physical frame of split-buffer slot `slot` of logical core `core`
\* (Memory_getPhysicalAddress of &splitBuffer[CONTEXT_EPT_SPLIT_SIZE * slot]);
\* the context array lies behind the modelled guest window.
ContextBasePfn == MaxFill * EPT_PT_ENTRIES
Memory_getPhysicalPfn(core, slot) == ContextBasePfn + core * CONTEXT_EPT_NO_SPLITS + slot
\* Memory_getVirtualAddress of a page-table frame: the owning core and slot
Memory_getVirtualCore(pfn) == (pfn - ContextBasePfn) \div CONTEXT_EPT_NO_SPLITS
Memory_getVirtualSlot(pfn) == (pfn - ContextBasePfn) % CONTEXT_EPT_NO_SPLITS

(* ----------------------------- state ------------------------------------ *)
VARIABLES
  hw,               \* CPUID / MSR facts of the machine: [mtrr, mtrrEnable,
                    \* fixedMtrr, defaultMemoryType, variableMtrrs]
  build,            \* the build of the driver: what the compiler made of the
                    \* reads of VMEXIT_handler's const locals
  noOfLogicalCores, \* Context_Context.noOfLogicalCores
  phase,            \* where the driver is: "enabling" (VMM_enable called by
                    \* DriverEntry), "running", "disabling" and "destroying"
                    \* (the two halves of VMM_disable), "failed" (VMM_enable
                    \* returned a failure), "unloading" (VMM_disable returned
                    \* to DriverUnload), "unloaded"
  status,           \* VMM_enable: its local variable status
  buildIndex,       \* logicalCoreIndex of the EPT loop of VMM_enable
  isVirtualized,    \* Context_LogicalCore.isVirtualized, per core
  eptp,             \* Context_LogicalCore.eptp, per core
  vmx,              \* per core: "off" outside VMX operation, "guest" after
                    \* the launch, while the core runs as the guest
  heap,             \* the pool: the context and, per core, the blocks of its
                    \* EPT structure, each "none", "allocated", "freed" or
                    \* "corrupt" (freed while not allocated)
  pd,               \* per core: page directory reached from its eptp
  splitBuffer,      \* per core: Context_EptMappingsData.splitBuffer
  noOfUsedSplits,   \* per core: Context_EptMappingsData.noOfUsedSplits
  changedMappings,  \* per core: Context_EptMappingsData.changedMappings
  registers,        \* per core: VMEXIT_Registers of the last VM exit
  vmcs,             \* per core: the fields of its VMCS the handlers use
  exits,            \* per core: its last VM exit, the VMCS as the processor
                    \* stored it, the operations the handlers performed in
                    \* order and the value VMEXIT_handler returned
  bugCheck,         \* KeBugCheck code, BSOD_NONE while the system runs
  top,              \* caller: index of the last page it installed
  firstOut,         \* caller: it removed its first page
  ioStatus,         \* irp->IoStatus.Status of the request the last step
                    \* completed, IRP_NONE when it completed none
  instruction,      \* per core: the instruction of the guest the processor
                    \* is executing, where its bytes and its operand lie
  pml4,             \* per core: the first entries of its EPT_Pml4E[512]
  overlay           \* the page table of the first 2 MiB in full while
                    \* overrideFirstPml4EntryWithFixedMtrrs fills it: the
                    \* fixed-range MSRs, the type of each of the 512
                    \* leaves, how often each was written, ptIterator

vars == <<hw, build, noOfLogicalCores, phase, status, buildIndex, isVirtualized, eptp, vmx, heap, pd,
          splitBuffer, noOfUsedSplits, changedMappings, registers, vmcs, exits, bugCheck, top,
          firstOut, ioStatus, instruction, pml4, overlay>>

Cores == 0 .. (noOfLogicalCores - 1)

\* the per-core state the VM-exit handlers work on, as one value
Machine == [pml4 |-> pml4, pd |-> pd, splitBuffer |-> splitBuffer, noOfUsedSplits |-> noOfUsedSplits,
            changedMappings |-> changedMappings, registers |-> registers,
            vmcs |-> vmcs, exits |-> exits, bugCheck |-> bugCheck]

ZeroPtE == [readAccess |-> FALSE, writeAccess |-> FALSE, fetchAccess |-> FALSE,
            memoryType |-> 0, pageFrameNumber |-> 0]
ZeroPml4E == [readAccess |-> FALSE, writeAccess |-> FALSE, fetchAccess |-> FALSE,
              pageFrameNumber |-> 0]
\* the entries of a PML4 that are kept: those EPT_setupDefaltStructures may
\* fill and the first behind them
Pml4Indices == 0 .. EPT_WINDOWS_MAX_PML4_COUNT
ZeroPdE == [readAccess |-> FALSE, writeAccess |-> FALSE, fetchAccess |-> FALSE,
            isLargePage |-> FALSE, memoryType |-> 0, pageFrameNumber |-> 0]
ZeroMapping == [guestAddress |-> 0, hostRwAddress |-> 0, hostFetchAddress |-> 0,
                valid |-> FALSE]
\* a register holds its bits 31:0 read as an INT32; upper holds bits 63:32
\* of the registers a handler reads or writes in full
ZeroRegisters == [RAX |-> 0, RBX |-> 0, RCX |-> 0, RDX |-> 0, R8 |-> 0, R9 |-> 0, RSP |-> 0,
                  upper |-> [RAX |-> 0, RBX |-> 0, RCX |-> 0, RDX |-> 0]]
NoAccess == [dataRead |-> FALSE, dataWrite |-> FALSE, instructionFetch |-> FALSE]
ZeroVmcs == [exitReason |-> 0, exitQualification |-> NoAccess,
             guestPhysicalAddress |-> UINT64(0), instructionLength |-> 0,
             guestRip |-> 0, guestRsp |-> 0]
\* no instruction of the guest is followed on the core
NoInstruction == [running |-> FALSE, code |-> 0, data |-> 0, access |-> NoAccess]
NoExit == [vmcs |-> ZeroVmcs, registers |-> ZeroRegisters, effects |-> <<>>,
           initiateShutdown |-> FALSE]

\* the blocks Memory_allocate returns for the EPT structure of one core, in
\* the order of their allocation: the PML4 and, for its first entry, the
\* PDPT and the array of page directories
EptBlocks == <<"pml4", "pdpt", "pdArray">>
NoBlocks == [b \in 1 .. Len(EptBlocks) |-> "none"]
\* Memory_free(block): the state of the block after the call
Memory_free(block) == IF block = "allocated" THEN "freed" ELSE "corrupt"

\* VMEXIT_handler defines instructionLength and rip as const UINT64 with the
\* initialiser 0 and lets __vmx_vmread write them. A build either reads the
\* two objects after the writes or takes them for the constants they are
\* declared as.
ReadingBuild == [constLocals |-> "read"]
FoldingBuild == [constLocals |-> "folded"]

\* outside overrideFirstPml4EntryWithFixedMtrrs the page table of the first
\* 2 MiB is kept by its modelled leaves only
NoOverlay == [msr |-> <<>>, pt |-> <<>>, written |-> <<>>, ptIterator |-> 0, filled |-> 0]

\* DriverEntry after Context_init on a machine of n logical cores: the
\* context is allocated zeroed, VMM_enable is about to build the EPTs
InitBuilt(n, machines, builds) ==
  /\ hw \in machines
  /\ build \in builds
  /\ noOfLogicalCores = n
  /\ phase = "enabling"
  /\ status = IRP_NONE
  /\ buildIndex = 0
  /\ isVirtualized = [c \in Cores |-> FALSE]
  /\ eptp = [c \in Cores |-> 0]
  /\ vmx = [c \in Cores |-> "off"]
  /\ heap = [context |-> "allocated", ept |-> [c \in Cores |-> NoBlocks]]
  /\ pd = [c \in Cores |-> [d \in PdIndices |-> ZeroPdE]]
  /\ splitBuffer = [c \in Cores |-> [s \in SplitIndices |-> [i \in PtIndices |-> ZeroPtE]]]
  /\ noOfUsedSplits = [c \in Cores |-> 0]
  /\ changedMappings = [c \in Cores |-> [m \in MappingIndices |-> ZeroMapping]]
  /\ registers = [c \in Cores |-> ZeroRegisters]
  /\ vmcs = [c \in Cores |-> ZeroVmcs]
  /\ exits = [c \in Cores |-> NoExit]
  /\ bugCheck = BSOD_NONE
  /\ top = 0
  /\ firstOut = FALSE
  /\ ioStatus = IRP_NONE
  /\ instruction = [c \in Cores |-> NoInstruction]
  /\ pml4 = [c \in Cores |-> [p \in Pml4Indices |-> ZeroPml4E]]

\* a build of the driver that reads the const locals of VMEXIT_handler
InitWith(n, machines) == InitBuilt(n, machines, {ReadingBuild}) /\ overlay = NoOverlay

InitFor(n) == InitWith(n, PlainMachines)

(* ----------------------------- the processor: CPUID ---------------------- *)
\* the least INT32, 0x80000000
INT32_MIN == -2147483647 - 1

Ascii ==
  "A" :> 65 @@ "G" :> 71 @@ "I" :> 73 @@ "a" :> 97 @@ "c" :> 99 @@ "d" :> 100 @@ "e" :> 101
  @@ "i" :> 105 @@ "l" :> 108 @@ "n" :> 110 @@ "o" :> 111 @@ "t" :> 116 @@ "u" :> 117
  @@ "v" :> 118

\* the value of a multi-character constant 'abcd': its first character is the
\* most significant byte
MultiChar(chars) ==
  ((Ascii[chars[1]] * 256 + Ascii[chars[2]]) * 256 + Ascii[chars[3]]) * 256 + Ascii[chars[4]]

\* __cpuidex(cpuid, function, subleaf) on the processor: EAX, EBX, ECX, EDX
\* of an Intel processor with VMX, as INT32s
cpuidex(cpuidFunction, cpuidSubleaf) ==
  IF cpuidFunction = IA32_CPUID_BASIC_INFORMATION_0
  THEN <<22, MultiChar(<<"u", "n", "e", "G">>), MultiChar(<<"l", "e", "t", "n">>),
         MultiChar(<<"I", "e", "n", "i">>)>>
  ELSE IF cpuidFunction = IA32_CPUID_BASIC_INFORMATION_1
  THEN <<591594, 1050624, 1 + 32, 1 + (IF hw.mtrr THEN 4096 ELSE 0)>>
  ELSE IF cpuidFunction = 4
  THEN <<289 + cpuidSubleaf, 29360191, 63, 0>>
  ELSE IF cpuidFunction = INT32_MIN
  THEN <<INT32_MIN + 8, 0, 0, 0>>
  ELSE IF cpuidFunction = INT32_MIN + 8
  THEN <<48 * 256 + hw.physicalAddressBits, 0, 0, 0>>
  ELSE <<0, 0, 0, 0>>

(* ----------------------------- ept.c ------------------------------------ *)
\* splitPage that takes its slot before it looks at the capacity
splitPageCountsFirst(m, cur, owner, pdEntry) ==
  LET slot == m.noOfUsedSplits[cur]
      taken == [m EXCEPT !.noOfUsedSplits[cur] = @ + 1]
  IN IF slot >= CONTEXT_EPT_NO_SPLITS
     THEN [ntStatus |-> STATUS_UNSUCCESSFUL, m |-> taken]
     ELSE
       [ntStatus |-> STATUS_SUCCESS,
        m |-> [taken EXCEPT
                 !.splitBuffer[cur][slot] =
                    [ptEntryIndex \in PtIndices |->
                       [readAccess |-> TRUE, writeAccess |-> TRUE, fetchAccess |-> TRUE,
                        memoryType |-> m.pd[owner][pdEntry].memoryType,
                        pageFrameNumber |->
                          EPT_PT_ENTRIES * m.pd[owner][pdEntry].pageFrameNumber + ptEntryIndex]],
                 !.pd[owner][pdEntry] =
                    [readAccess |-> TRUE, writeAccess |-> TRUE, fetchAccess |-> TRUE,
                     isLargePage |-> FALSE, memoryType |-> 0,
                     pageFrameNumber |-> Memory_getPhysicalPfn(cur, slot)]]]

\* splitPage that keeps the last slot of the arena unused
splitPageKeepsLastSlot(m, cur, owner, pdEntry) ==
  IF m.noOfUsedSplits[cur] >= CONTEXT_EPT_NO_SPLITS - 1
  THEN [ntStatus |-> STATUS_UNSUCCESSFUL, m |-> m]
  ELSE
    [ntStatus |-> STATUS_SUCCESS,
     m |-> [m EXCEPT
              !.noOfUsedSplits[cur] = @ + 1,
              !.splitBuffer[cur][m.noOfUsedSplits[cur]] =
                 [ptEntryIndex \in PtIndices |->
                    [readAccess |-> TRUE, writeAccess |-> TRUE, fetchAccess |-> TRUE,
                     memoryType |-> m.pd[owner][pdEntry].memoryType,
                     pageFrameNumber |->
                       EPT_PT_ENTRIES * m.pd[owner][pdEntry].pageFrameNumber + ptEntryIndex]],
              !.pd[owner][pdEntry] =
                 [readAccess |-> TRUE, writeAccess |-> TRUE, fetchAccess |-> TRUE,
                  isLargePage |-> FALSE, memoryType |-> 0,
                  pageFrameNumber |-> Memory_getPhysicalPfn(cur, m.noOfUsedSplits[cur])]]]

\* splitPage that numbers the 4 KiB frames from the 2 MiB frame number itself
splitPageUnscaledFrame(m, cur, owner, pdEntry) ==
  IF m.noOfUsedSplits[cur] >= CONTEXT_EPT_NO_SPLITS
  THEN [ntStatus |-> STATUS_UNSUCCESSFUL, m |-> m]
  ELSE
    LET slot == m.noOfUsedSplits[cur]
        pte == [ptEntryIndex \in PtIndices |->
                  [readAccess |-> TRUE, writeAccess |-> TRUE, fetchAccess |-> TRUE,
                   memoryType |-> m.pd[owner][pdEntry].memoryType,
                   pageFrameNumber |-> m.pd[owner][pdEntry].pageFrameNumber + ptEntryIndex]]
        standard == [readAccess |-> TRUE, writeAccess |-> TRUE, fetchAccess |-> TRUE,
                     isLargePage |-> FALSE, memoryType |-> 0,
                     pageFrameNumber |-> Memory_getPhysicalPfn(cur, slot)]
    IN [ntStatus |-> STATUS_SUCCESS,
        m |-> [m EXCEPT !.noOfUsedSplits[cur] = @ + 1,
                        !.splitBuffer[cur][slot] = pte,
                        !.pd[owner][pdEntry] = standard]]

\* splitPage(pde), pde = entry pdEntry of the page directory of core `owner`,
\* executed on processor `cur`
splitPage(m, cur, owner, pdEntry) ==
  IF m.noOfUsedSplits[cur] >= CONTEXT_EPT_NO_SPLITS
  THEN [ntStatus |-> STATUS_UNSUCCESSFUL, m |-> m]
  ELSE
    LET slot == m.noOfUsedSplits[cur]
        memoryType == m.pd[owner][pdEntry].memoryType
        pageFrameNumber == m.pd[owner][pdEntry].pageFrameNumber
        pte == [ptEntryIndex \in PtIndices |->
                  [readAccess |-> TRUE, writeAccess |-> TRUE, fetchAccess |-> TRUE,
                   memoryType |-> memoryType,
                   pageFrameNumber |-> EPT_PT_ENTRIES * pageFrameNumber + ptEntryIndex]]
        standard == [readAccess |-> TRUE, writeAccess |-> TRUE, fetchAccess |-> TRUE,
                     isLargePage |-> FALSE, memoryType |-> 0,
                     pageFrameNumber |-> Memory_getPhysicalPfn(cur, slot)]
    IN [ntStatus |-> STATUS_SUCCESS,
        m |-> [m EXCEPT !.noOfUsedSplits[cur] = @ + 1,
                        !.splitBuffer[cur][slot] = pte,
                        !.pd[owner][pdEntry] = standard]]

\* EPT_changeMapping that writes the fetch flag into writeAccess
EPT_changeMappingWriteFromFetch(m, cur, sourceAddress, targetAddress, rw, fetch) ==
  LET pdEntry == PdEntry(sourceAddress)
      split == IF m.pd[cur][pdEntry].isLargePage
               THEN splitPage(m, cur, cur, pdEntry)
               ELSE [ntStatus |-> STATUS_SUCCESS, m |-> m]
  IN IF ~NT_SUCCESS(split.ntStatus)
     THEN split
     ELSE
       LET pfn == split.m.pd[cur][pdEntry].pageFrameNumber
       IN [ntStatus |-> STATUS_SUCCESS,
           m |-> [split.m EXCEPT
                    !.splitBuffer[Memory_getVirtualCore(pfn)][Memory_getVirtualSlot(pfn)]
                                 [PtEntry(sourceAddress)] =
                       [@ EXCEPT !.pageFrameNumber = PageFrameNumber4KB(targetAddress),
                                 !.readAccess = rw,
                                 !.writeAccess = fetch,
                                 !.fetchAccess = fetch],
                    !.exits[cur].effects = Append(@, "EPT_changeMapping")]]

\* EPT_changeMapping that writes the leaf anew, without its memory type
EPT_changeMappingResetsType(m, cur, sourceAddress, targetAddress, rw, fetch) ==
  LET pdEntry == PdEntry(sourceAddress)
      split == IF m.pd[cur][pdEntry].isLargePage
               THEN splitPage(m, cur, cur, pdEntry)
               ELSE [ntStatus |-> STATUS_SUCCESS, m |-> m]
  IN IF ~NT_SUCCESS(split.ntStatus)
     THEN split
     ELSE
       LET pfn == split.m.pd[cur][pdEntry].pageFrameNumber
       IN [ntStatus |-> STATUS_SUCCESS,
           m |-> [split.m EXCEPT
                    !.splitBuffer[Memory_getVirtualCore(pfn)][Memory_getVirtualSlot(pfn)]
                                 [PtEntry(sourceAddress)] =
                       [ZeroPtE EXCEPT !.pageFrameNumber = PageFrameNumber4KB(targetAddress),
                                       !.readAccess = rw,
                                       !.writeAccess = rw,
                                       !.fetchAccess = fetch],
                    !.exits[cur].effects = Append(@, "EPT_changeMapping")]]

\* EPT_changeMapping(sourceAddress, targetAddress, rw, fetch) on processor cur;
\* the write of the leaf is noted among the operations of the VM exit
EPT_changeMapping(m, cur, sourceAddress, targetAddress, rw, fetch) ==
  LET pdEntry == PdEntry(sourceAddress)
      split == IF m.pd[cur][pdEntry].isLargePage
               THEN splitPage(m, cur, cur, pdEntry)
               ELSE [ntStatus |-> STATUS_SUCCESS, m |-> m]
  IN IF ~NT_SUCCESS(split.ntStatus)
     THEN split
     ELSE
       LET pfn == split.m.pd[cur][pdEntry].pageFrameNumber
           ptCore == Memory_getVirtualCore(pfn)
           ptSlot == Memory_getVirtualSlot(pfn)
           ptEntry == PtEntry(sourceAddress)
       IN [ntStatus |-> STATUS_SUCCESS,
           m |-> [split.m EXCEPT
                    !.splitBuffer[ptCore][ptSlot][ptEntry] =
                       [@ EXCEPT !.pageFrameNumber = PageFrameNumber4KB(targetAddress),
                                 !.readAccess = rw,
                                 !.writeAccess = rw,
                                 !.fetchAccess = fetch],
                    !.exits[cur].effects = Append(@, "EPT_changeMapping")]]

\* EPT_changeMapping(sourceAddress, ...) on processor cur for a source
\* address with bits 63:32 = upper, its first three reads: the entry of the
\* PML4 at bits 47:39 of the address is followed whatever it holds. An entry
\* EPT_setupDefaltStructures left zero names frame 0: Memory_getVirtualAddress
\* bug-checks when MmGetVirtualForPhysical(0) is NULL, else the walk goes on
\* in what lies at frame 0. The page directories behind PML4 entry 0, PDPT
\* entry 0 are not kept, so the operator has no value for a populated entry.
EPT_changeMappingAbove(m, cur, upper) ==
  LET pml4Entry == (upper \div 128) % 512
      kept == IF pml4Entry < EPT_WINDOWS_MAX_PML4_COUNT THEN pml4Entry
              ELSE EPT_WINDOWS_MAX_PML4_COUNT
      followed == [m EXCEPT !.exits[cur].effects = Append(@, "Memory_getVirtualAddress(0)")]
  IN IF m.pml4[cur][kept].pageFrameNumber = 0
     THEN IF hw.frame0Virtual
          THEN [followed EXCEPT !.bugCheck = FOREIGN_MEMORY_WALK]
          ELSE [followed EXCEPT !.bugCheck = BSOD_MEMORY_VA_CONVERSION]
     ELSE CHOOSE unkept \in {} : TRUE

\* getPml4Count without the limit of EPT_WINDOWS_MAX_PML4_COUNT
getPml4CountUnlimited ==
  LET eax == cpuidex(INT32_MIN + 8, 0)[1]
      physicalAddressBits == IF eax % 256 >= 128 THEN (eax % 256) - 256 ELSE eax % 256
      shiftValue == IF physicalAddressBits - 39 > 0 THEN physicalAddressBits - 39 ELSE 0
  IN 2 ^ shiftValue

\* getPml4Count: physicalAddressBits is the INT32 bit-field of 8 bits at
\* bit 0 of EAX of CPUID.80000008h, max and min are the macros of the WDK;
\* 1U << shiftValue is an unsigned of 32 bits, defined for the shifts below
\* 32 that the widths of the modelled processors give
getPml4Count ==
  LET eax == cpuidex(INT32_MIN + 8, 0)[1]
      physicalAddressBits == IF eax % 256 >= 128 THEN (eax % 256) - 256 ELSE eax % 256
      shiftValue == IF physicalAddressBits - 39 > 0 THEN physicalAddressBits - 39 ELSE 0
      shifted == 2 ^ shiftValue
  IN IF shifted < EPT_WINDOWS_MAX_PML4_COUNT THEN shifted ELSE EPT_WINDOWS_MAX_PML4_COUNT

\* physical frame of the PDPT Memory_allocate returns for entry
\* pml4EntryIndex of the PML4 of logical core owner, a block of the pool
PdptPfn(owner, pml4EntryIndex) ==
  ContextBasePfn + (MaxLogicalCores + 2) * CONTEXT_EPT_NO_SPLITS
    + owner * EPT_WINDOWS_MAX_PML4_COUNT + pml4EntryIndex

\* the EPT_PdE2MB setupPml4Entry writes at entry pdEntryIndex of the page
\* directory of entry pdptEntryIndex of the PDPT of entry pml4EntryIndex:
\* EPT_Address packs the three indices at bits 39, 30 and 21, its
\* pageFrameNumber2MB is bits 63:21 and the field of the entry has 31 bits
IdentityPdE(pml4EntryIndex, pdptEntryIndex, pdEntryIndex) ==
  [readAccess |-> TRUE, writeAccess |-> TRUE, fetchAccess |-> TRUE,
   isLargePage |-> TRUE, memoryType |-> IA32_MTRR_DISABLED_DEFAULT_TYPE,
   pageFrameNumber |->
     (pml4EntryIndex % 512) * 262144 + (pdptEntryIndex % 512) * 512 + (pdEntryIndex % 512)]

\* the loop of EPT_setupDefaltStructures over setupPml4Entry that fills
\* every entry of the PML4
setupPml4EntryEveryIndex(m, owner) ==
  [m EXCEPT !.pml4[owner] =
              [pml4Index \in Pml4Indices |->
                 [readAccess |-> TRUE, writeAccess |-> TRUE, fetchAccess |-> TRUE,
                  pageFrameNumber |-> PdptPfn(owner, pml4Index)]],
            !.pd[owner] = [pdEntryIndex \in PdIndices |-> IdentityPdE(0, 0, pdEntryIndex)]]

\* the loop of EPT_setupDefaltStructures over setupPml4Entry: the PML4
\* entries below getPml4Count() point at their PDPT, the others stay as
\* Memory_allocate zeroed them; every PD entry is an identity 2 MiB leaf of
\* the memory type used while the MTRRs are disabled (the page directory of
\* PML4 entry 0, PDPT entry 0 is kept)
setupPml4Entry(m, owner) ==
  [m EXCEPT !.pml4[owner] =
              [pml4Index \in Pml4Indices |->
                 IF pml4Index < getPml4Count
                 THEN [readAccess |-> TRUE, writeAccess |-> TRUE, fetchAccess |-> TRUE,
                       pageFrameNumber |-> PdptPfn(owner, pml4Index)]
                 ELSE ZeroPml4E],
            !.pd[owner] = [pdEntryIndex \in PdIndices |-> IdentityPdE(0, 0, pdEntryIndex)]]

\* the valid variable MTRRs whose range holds physicalAddress
CoveringMtrrs(noOfVariableMtrrs, variableMtrrs, physicalAddress) ==
  {mtrrIndex \in 0 .. (noOfVariableMtrrs - 1) :
     /\ variableMtrrs[mtrrIndex].valid
     /\ variableMtrrs[mtrrIndex].baseAddress <= physicalAddress
     /\ physicalAddress <
          variableMtrrs[mtrrIndex].baseAddress + variableMtrrs[mtrrIndex].length}

\* searchVariableMtrrs in which write-back wins over write-through
searchVariableMtrrsWbFirst(noOfVariableMtrrs, variableMtrrs, defaultMemoryType, physicalAddress) ==
  LET covering == CoveringMtrrs(noOfVariableMtrrs, variableMtrrs, physicalAddress)
      types == {variableMtrrs[i].memoryType : i \in covering}
  IN IF types = {} THEN defaultMemoryType
     ELSE IF UndefinedMemoryType \in types THEN IA32_MTRR_MEMORY_TYPE_ERR
     ELSE IF Cardinality(types) = 1 THEN CHOOSE t \in types : TRUE
     ELSE IF IA32_MTRR_MEMORY_TYPE_UC \in types THEN IA32_MTRR_MEMORY_TYPE_UC
     ELSE IF types = {IA32_MTRR_MEMORY_TYPE_WT, IA32_MTRR_MEMORY_TYPE_WB}
     THEN IA32_MTRR_MEMORY_TYPE_WB
     ELSE IA32_MTRR_MEMORY_TYPE_ERR

\* searchVariableMtrrs: the flags of EPT_FoundMemoryTypes set by the loop
\* over the MTRRs, the loop left at once with the error value when a
\* covering MTRR has none of the five types, then the tests on the flags
searchVariableMtrrs(noOfVariableMtrrs, variableMtrrs, defaultMemoryType, physicalAddress) ==
  LET covering == CoveringMtrrs(noOfVariableMtrrs, variableMtrrs, physicalAddress)
      Found(type) == IF \E i \in covering : variableMtrrs[i].memoryType = type THEN 1 ELSE 0
      uncacheable == Found(IA32_MTRR_MEMORY_TYPE_UC)
      writeCombining == Found(IA32_MTRR_MEMORY_TYPE_WC)
      writeThrough == Found(IA32_MTRR_MEMORY_TYPE_WT)
      writeProtected == Found(IA32_MTRR_MEMORY_TYPE_WP)
      writeback == Found(IA32_MTRR_MEMORY_TYPE_WB)
      sum == uncacheable + writeCombining + writeThrough + writeProtected + writeback
  IN IF \E i \in covering :
          variableMtrrs[i].memoryType \notin
            {IA32_MTRR_MEMORY_TYPE_UC, IA32_MTRR_MEMORY_TYPE_WC, IA32_MTRR_MEMORY_TYPE_WT,
             IA32_MTRR_MEMORY_TYPE_WP, IA32_MTRR_MEMORY_TYPE_WB}
     THEN IA32_MTRR_MEMORY_TYPE_ERR
     ELSE IF sum = 1
     THEN IF uncacheable = 1 THEN IA32_MTRR_MEMORY_TYPE_UC
          ELSE IF writeCombining = 1 THEN IA32_MTRR_MEMORY_TYPE_WC
          ELSE IF writeThrough = 1 THEN IA32_MTRR_MEMORY_TYPE_WT
          ELSE IF writeProtected = 1 THEN IA32_MTRR_MEMORY_TYPE_WP
          ELSE IA32_MTRR_MEMORY_TYPE_WB
     ELSE IF uncacheable = 1 THEN IA32_MTRR_MEMORY_TYPE_UC
     ELSE IF writeThrough = 1 /\ writeback = 1
             /\ uncacheable + writeCombining + writeProtected = 0
     THEN IA32_MTRR_MEMORY_TYPE_WT
     ELSE IF sum # 0 THEN IA32_MTRR_MEMORY_TYPE_ERR
     ELSE defaultMemoryType

\* the value the bit-field largePage.memoryType holds after the result of
\* searchVariableMtrrs is assigned to it
StoredMemoryType(memoryType) == memoryType % (2 ^ EPT_MEMORY_TYPE_BITS)

\* adjustPml4WithVariableMtrrs: the PD entries in index order, each given
\* the stored result of searchVariableMtrrs; the loop returns at the first
\* entry whose stored memory type equals IA32_MTRR_MEMORY_TYPE_ERR
adjustPml4WithVariableMtrrs(m, owner, noOfVariableRangeRegisters, variableMtrrs, defaultMemoryType) ==
  LET stored == [pdEntryIndex \in PdIndices |->
                   StoredMemoryType(
                     searchVariableMtrrs(noOfVariableRangeRegisters, variableMtrrs,
                                         defaultMemoryType,
                                         AddressOf(m.pd[owner][pdEntryIndex].pageFrameNumber, 0)))]
      failing == {pdEntryIndex \in PdIndices :
                    stored[pdEntryIndex] = IA32_MTRR_MEMORY_TYPE_ERR}
      last == IF failing = {} THEN MaxFill
              ELSE CHOOSE i \in failing : \A j \in failing : i <= j
  IN [ntStatus |-> IF failing = {} THEN STATUS_SUCCESS ELSE STATUS_UNSUCCESSFUL,
      m |-> [m EXCEPT !.pd[owner] =
               [pdEntryIndex \in PdIndices |->
                  IF pdEntryIndex <= last
                  THEN [@[pdEntryIndex] EXCEPT !.memoryType = stored[pdEntryIndex]]
                  ELSE @[pdEntryIndex]]]]

\* the eleven fixed-range MSRs, in the order of the calls of
\* overrideFirstPml4EntryWithFixedMtrrs: IA32_MTRR_FIX64K_00000 (0x250),
\* IA32_MTRR_FIX16K_80000, _A0000 (0x258, 0x259), IA32_MTRR_FIX4K_C0000 ..
\* _F8000 (0x268 .. 0x26F), each with the size in KiB one of its bytes covers
FixedRangeMsrs ==
  <<[msrIndex |-> 592, sizeInKBytes |-> 64],
    [msrIndex |-> 600, sizeInKBytes |-> 16], [msrIndex |-> 601, sizeInKBytes |-> 16],
    [msrIndex |-> 616, sizeInKBytes |-> 4], [msrIndex |-> 617, sizeInKBytes |-> 4],
    [msrIndex |-> 618, sizeInKBytes |-> 4], [msrIndex |-> 619, sizeInKBytes |-> 4],
    [msrIndex |-> 620, sizeInKBytes |-> 4], [msrIndex |-> 621, sizeInKBytes |-> 4],
    [msrIndex |-> 622, sizeInKBytes |-> 4], [msrIndex |-> 623, sizeInKBytes |-> 4]>>
\* the contents of the fixed-range MSRs of the modelled machines, an MSR as
\* its eight bytes from the lowest; a byte holds UC, WC, WT, WP or WB (WRMSR
\* faults on the others): all bytes of one type, or the types in turn from
\* byte to byte and from MSR to MSR, starting at any of them
FixedRangeContents ==
  LET msrIndices == {FixedRangeMsrs[k].msrIndex : k \in DOMAIN FixedRangeMsrs}
      types == <<IA32_MTRR_MEMORY_TYPE_UC, IA32_MTRR_MEMORY_TYPE_WC, IA32_MTRR_MEMORY_TYPE_WT,
                 IA32_MTRR_MEMORY_TYPE_WP, IA32_MTRR_MEMORY_TYPE_WB>>
  IN {[msrIndex \in msrIndices |-> [b \in 1 .. 8 |-> types[t]]] : t \in DOMAIN types}
     \cup {[msrIndex \in msrIndices |->
              [b \in 1 .. 8 |-> types[((msrIndex * 8 + b + t) % Len(types)) + 1]]] :
             t \in DOMAIN types}
\* the page table of the first 2 MiB as splitPage leaves it, every leaf
\* with the memory type of the 2 MiB leaf, on a machine with these MSRs
SplitFirstTables ==
  {[msr |-> msr, pt |-> [i \in 0 .. (EPT_PT_ENTRIES - 1) |-> memoryType],
    written |-> [i \in 0 .. (EPT_PT_ENTRIES - 1) |-> 0], ptIterator |-> 0, filled |-> 0] :
     msr \in FixedRangeContents,
     memoryType \in {IA32_MTRR_MEMORY_TYPE_UC, IA32_MTRR_MEMORY_TYPE_WC, IA32_MTRR_MEMORY_TYPE_WT,
                     IA32_MTRR_MEMORY_TYPE_WP, IA32_MTRR_MEMORY_TYPE_WB}}

\* the two loops of fillFixedMtrr over an MSR read as its eight bytes:
\* iteration mappedPageCounter of byte msrByteIndex is write number
\* msrByteIndex * pages + mappedPageCounter, it stores the byte in the
\* 3-bit memoryType field of the leaf that many leaves behind the iterator,
\* and the iterator ends behind the last write
fillFixedMtrrBytes(o, msr, msrByteIndex, pages) ==
  LET from == o.ptIterator
      writes == (8 - msrByteIndex) * pages
      memoryType(n) == msr[msrByteIndex + (n \div pages) + 1]
  IN [o EXCEPT !.pt = [i \in DOMAIN o.pt |->
                         IF from <= i /\ i < from + writes
                         THEN memoryType(i - from) % (2 ^ EPT_MEMORY_TYPE_BITS)
                         ELSE o.pt[i]],
               !.written = [i \in DOMAIN o.written |->
                              IF from <= i /\ i < from + writes
                              THEN o.written[i] + 1 ELSE o.written[i]],
               !.ptIterator = from + writes]
\* fillFixedMtrr that takes the size in KiB for the number of leaves
fillFixedMtrrPerKByte(o, msrIndex, sizeInKBytes) ==
  fillFixedMtrrBytes(o, o.msr[msrIndex], 0, sizeInKBytes)
fillFixedMtrr(o, msrIndex, sizeInKBytes) ==
  fillFixedMtrrBytes(o, o.msr[msrIndex], 0, sizeInKBytes \div 4)

overrideFirstPml4EntryWithFixedMtrrs(m, cur, owner) ==
  LET split == splitPage(m, cur, owner, 0)
  IN IF ~NT_SUCCESS(split.ntStatus)
     THEN split
     ELSE
       LET pfn == split.m.pd[owner][0].pageFrameNumber
           ptCore == Memory_getVirtualCore(pfn)
           ptSlot == Memory_getVirtualSlot(pfn)
       IN [ntStatus |-> STATUS_SUCCESS,
           m |-> [split.m EXCEPT !.splitBuffer[ptCore][ptSlot] =
                    [i \in PtIndices |->
                       IF i < FIXED_MTRR_LEAVES
                       THEN [@[i] EXCEPT !.memoryType = FixedMtrrMemoryType]
                       ELSE @[i]]]]

\* EPT_setupDefaltStructures that lays the fixed-range overlay whatever the
\* MTRR capabilities say
EPT_setupDefaltStructuresAlwaysFixed(m, cur, owner) ==
  LET built == setupPml4Entry(m, owner)
      adjusted == IF hw.mtrr /\ hw.mtrrEnable
                  THEN adjustPml4WithVariableMtrrs(built, owner, MaxVariableMtrrs,
                                                   hw.variableMtrrs, hw.defaultMemoryType)
                  ELSE [ntStatus |-> STATUS_SUCCESS, m |-> built]
      fixed == overrideFirstPml4EntryWithFixedMtrrs(adjusted.m, cur, owner)
  IN IF ~NT_SUCCESS(adjusted.ntStatus) THEN [ntStatus |-> adjusted.ntStatus, m |-> m]
     ELSE IF NT_SUCCESS(fixed.ntStatus) THEN fixed
     ELSE [ntStatus |-> fixed.ntStatus, m |-> m]

\* EPT_setupDefaltStructures(&logicalCores[owner].eptp) on processor cur:
\* the identity 2 MiB leaves; when CPUID reports MTRRs and they are enabled
\* the memory types of the variable MTRRs and, the fixed-range MTRRs being
\* supported and enabled (hw.fixedMtrr), the fixed-range overlay; a failure
\* destroys what was built
EPT_setupDefaltStructures(m, cur, owner) ==
  LET built == setupPml4Entry(m, owner)
  IN IF hw.mtrr /\ hw.mtrrEnable
     THEN LET adjusted == adjustPml4WithVariableMtrrs(built, owner, MaxVariableMtrrs,
                                                      hw.variableMtrrs, hw.defaultMemoryType)
          IN IF ~NT_SUCCESS(adjusted.ntStatus)
             THEN [ntStatus |-> adjusted.ntStatus, m |-> m]
             ELSE IF hw.fixedMtrr
             THEN LET fixed == overrideFirstPml4EntryWithFixedMtrrs(adjusted.m, cur, owner)
                  IN IF NT_SUCCESS(fixed.ntStatus)
                     THEN fixed
                     ELSE [ntStatus |-> fixed.ntStatus, m |-> m]
             ELSE adjusted
     ELSE [ntStatus |-> STATUS_SUCCESS, m |-> built]

(* ----------------------------- vmexit.c --------------------------------- *)
\* an alignment test that looks at the guest address only
IsUnalignedGuestOnly(guestAddress, hostRwAddress, hostFetchAddress) ==
  Offset(guestAddress) # 0

\* the alignment test of vmCallMapPage
IsUnaligned(guestAddress, hostRwAddress, hostFetchAddress) ==
  Offset(guestAddress) # 0 \/ Offset(hostRwAddress) # 0 \/ Offset(hostFetchAddress) # 0

\* an alias test that compares the guest keys only
MappingCollidesKeyOnly(currentMapping, guestAddress, hostRwAddress, hostFetchAddress) ==
  currentMapping.valid /\ currentMapping.guestAddress = guestAddress

\* an alias test that also refuses a target shared with a valid record
MappingCollidesAnyUse(currentMapping, guestAddress, hostRwAddress, hostFetchAddress) ==
  /\ currentMapping.valid
  /\ {guestAddress, hostRwAddress, hostFetchAddress}
       \cap {currentMapping.guestAddress, currentMapping.hostRwAddress,
             currentMapping.hostFetchAddress} # {}

\* an alias test that looks for the guest address only, as key or target
MappingCollidesGuestUseOnly(currentMapping, guestAddress, hostRwAddress, hostFetchAddress) ==
  /\ currentMapping.valid
  /\ guestAddress \in {currentMapping.guestAddress, currentMapping.hostRwAddress,
                       currentMapping.hostFetchAddress}

\* an alias test that compares the guest keys of the table with the three
\* addresses and never looks at the targets of a record
MappingCollidesNoTargets(currentMapping, guestAddress, hostRwAddress, hostFetchAddress) ==
  /\ currentMapping.valid
  /\ currentMapping.guestAddress \in {guestAddress, hostRwAddress, hostFetchAddress}

\* the alias test of vmCallMapPage against one record of the table
MappingCollides(currentMapping, guestAddress, hostRwAddress, hostFetchAddress) ==
  /\ currentMapping.valid
  /\ \/ currentMapping.guestAddress = guestAddress
     \/ currentMapping.hostFetchAddress = guestAddress
     \/ currentMapping.hostRwAddress = guestAddress
     \/ currentMapping.guestAddress = hostRwAddress
     \/ currentMapping.guestAddress = hostFetchAddress

\* a slot search that wraps to record 0 when every record is valid
SelectedIndexWraps(mappings) ==
  LET invalid == {i \in MappingIndices : ~mappings[i].valid}
  IN IF invalid = {} THEN 0 ELSE CHOOSE i \in invalid : \A j \in invalid : i <= j

\* the slot search of vmCallMapPage: the first invalid record, or
\* CONTEXT_EPT_MAX_MAPPINGS when every record is valid
SelectedIndex(mappings) ==
  LET invalid == {i \in MappingIndices : ~mappings[i].valid}
  IN IF invalid = {}
     THEN CONTEXT_EPT_MAX_MAPPINGS
     ELSE CHOOSE i \in invalid : \A j \in invalid : i <= j

\* a lookup that also matches the read/write target of a record
FoundMappingAnyAddress(mappings, guestAddress) ==
  LET hits == {i \in MappingIndices :
                 /\ mappings[i].valid
                 /\ \/ mappings[i].guestAddress = guestAddress
                    \/ mappings[i].hostRwAddress = guestAddress}
  IN IF hits = {} THEN -1 ELSE CHOOSE i \in hits : \A j \in hits : i <= j

\* the lookup of vmCallUnmapPage and eptViolationHandler: the index of the
\* first valid record keyed by guestAddress, or -1 (foundMapping == NULL)
FoundMapping(mappings, guestAddress) ==
  LET hits == {i \in MappingIndices :
                 mappings[i].valid /\ mappings[i].guestAddress = guestAddress}
  IN IF hits = {} THEN -1 ELSE CHOOSE i \in hits : \A j \in hits : i <= j

\* an INT32 with its bit 31 set
SetBit31(value) == IF value < 0 THEN value ELSE value + INT32_MIN

\* bits 63:32 of the UINT64 an INT32 converts to
SignExtension(value) == IF value < 0 THEN -1 ELSE 0

SetRax(m, cur, value) ==
  [m EXCEPT !.registers[cur].RAX = value, !.registers[cur].upper.RAX = SignExtension(value)]

\* VMX_inveptAll(): INVEPT of all contexts on processor cur
VMX_inveptAll(m, cur) == [m EXCEPT !.exits[cur].effects = Append(@, "VMX_inveptAll")]

\* __vmx_vmwrite(field, value) on the current VMCS of processor cur
vmwrite(m, cur, field, value) ==
  [m EXCEPT !.vmcs[cur][field] = value, !.exits[cur].effects = Append(@, field)]

\* vmCallMapPage that stores the record whether or not the leaf was changed
vmCallMapPageRecordsAnyway(m, cur) ==
  LET guestAddress == m.registers[cur].RDX
      hostRwAddress == m.registers[cur].R8
      hostFetchAddress == m.registers[cur].R9
      mappings == m.changedMappings[cur]
      selectedIndex == SelectedIndex(mappings)
  IN IF IsUnaligned(guestAddress, hostRwAddress, hostFetchAddress)
     THEN SetRax(m, cur, STATUS_UNSUCCESSFUL)
     ELSE IF \E i \in MappingIndices :
               MappingCollides(mappings[i], guestAddress, hostRwAddress, hostFetchAddress)
     THEN SetRax(m, cur, STATUS_UNSUCCESSFUL)
     ELSE IF selectedIndex >= CONTEXT_EPT_MAX_MAPPINGS
     THEN SetRax(m, cur, STATUS_UNSUCCESSFUL)
     ELSE
       LET change == EPT_changeMapping(m, cur, guestAddress, guestAddress, FALSE, FALSE)
           recorded == [change.m EXCEPT
                          !.changedMappings[cur][selectedIndex] =
                             [guestAddress |-> guestAddress, hostRwAddress |-> hostRwAddress,
                              hostFetchAddress |-> hostFetchAddress, valid |-> TRUE]]
       IN IF ~NT_SUCCESS(change.ntStatus)
          THEN SetRax(recorded, cur, change.ntStatus)
          ELSE SetRax(VMX_inveptAll(recorded, cur), cur, STATUS_SUCCESS)

\* vmCallMapPage: RDX, R8 and R9 hold the three addresses; the records and
\* R8, R9 hold addresses below 4 GiB, a guest address with bits 63:32 set
\* (upper.RDX) equals none of them and is walked by EPT_changeMappingAbove
vmCallMapPage(m, cur) ==
  LET guestAddress == IF m.registers[cur].upper.RDX = 0 THEN m.registers[cur].RDX ELSE -PAGE_SIZE
      hostRwAddress == m.registers[cur].R8
      hostFetchAddress == m.registers[cur].R9
      mappings == m.changedMappings[cur]
      selectedIndex == SelectedIndex(mappings)
  IN IF IsUnaligned(m.registers[cur].RDX, hostRwAddress, hostFetchAddress)
     THEN SetRax(m, cur, STATUS_UNSUCCESSFUL)
     ELSE IF \E i \in MappingIndices :
               MappingCollides(mappings[i], guestAddress, hostRwAddress, hostFetchAddress)
     THEN SetRax(m, cur, STATUS_UNSUCCESSFUL)
     ELSE IF selectedIndex >= CONTEXT_EPT_MAX_MAPPINGS
     THEN SetRax(m, cur, STATUS_UNSUCCESSFUL)
     ELSE IF m.registers[cur].upper.RDX # 0
     THEN EPT_changeMappingAbove(m, cur, m.registers[cur].upper.RDX)
     ELSE
       LET change == EPT_changeMapping(m, cur, guestAddress, guestAddress, FALSE, FALSE)
       IN IF ~NT_SUCCESS(change.ntStatus)
          THEN SetRax(change.m, cur, change.ntStatus)
          ELSE SetRax(VMX_inveptAll(
                         [change.m EXCEPT
                            !.changedMappings[cur][selectedIndex] =
                               [guestAddress |-> guestAddress, hostRwAddress |-> hostRwAddress,
                                hostFetchAddress |-> hostFetchAddress, valid |-> TRUE]],
                         cur), cur, STATUS_SUCCESS)

\* vmCallUnmapPage that leaves the frame of the read/write target in the leaf
vmCallUnmapPageKeepsTarget(m, cur) ==
  LET guestAddress == m.registers[cur].RDX
      found == FoundMapping(m.changedMappings[cur], guestAddress)
  IN IF found = -1
     THEN SetRax(m, cur, STATUS_UNSUCCESSFUL)
     ELSE
       LET change == EPT_changeMapping(m, cur, guestAddress,
                        m.changedMappings[cur][found].hostRwAddress, TRUE, TRUE)
       IN IF ~NT_SUCCESS(change.ntStatus)
          THEN SetRax(change.m, cur, change.ntStatus)
          ELSE SetRax(VMX_inveptAll(
                         [change.m EXCEPT !.changedMappings[cur][found] = ZeroMapping], cur),
                      cur, STATUS_SUCCESS)

\* vmCallUnmapPage that gives a split slot back on success
vmCallUnmapPageReclaims(m, cur) ==
  LET guestAddress == m.registers[cur].RDX
      found == FoundMapping(m.changedMappings[cur], guestAddress)
  IN IF found = -1
     THEN SetRax(m, cur, STATUS_UNSUCCESSFUL)
     ELSE
       LET change == EPT_changeMapping(m, cur, guestAddress, guestAddress, TRUE, TRUE)
       IN IF ~NT_SUCCESS(change.ntStatus)
          THEN SetRax(change.m, cur, change.ntStatus)
          ELSE SetRax(VMX_inveptAll(
                         [change.m EXCEPT !.changedMappings[cur][found] = ZeroMapping,
                                          !.noOfUsedSplits[cur] = IF @ > 0 THEN @ - 1 ELSE @],
                         cur), cur, STATUS_SUCCESS)

\* vmCallUnmapPage that leaves the EPT caches of the processor as they are
vmCallUnmapPageKeepsCaches(m, cur) ==
  LET guestAddress == m.registers[cur].RDX
      found == FoundMapping(m.changedMappings[cur], guestAddress)
  IN IF found = -1
     THEN SetRax(m, cur, STATUS_UNSUCCESSFUL)
     ELSE
       LET change == EPT_changeMapping(m, cur, guestAddress, guestAddress, TRUE, TRUE)
       IN IF ~NT_SUCCESS(change.ntStatus)
          THEN SetRax(change.m, cur, change.ntStatus)
          ELSE SetRax([change.m EXCEPT !.changedMappings[cur][found] = ZeroMapping],
                      cur, STATUS_SUCCESS)

\* vmCallUnmapPage that drops the record and leaves the leaf as it is
vmCallUnmapPageKeepsLeaf(m, cur) ==
  LET guestAddress == m.registers[cur].RDX
      found == FoundMapping(m.changedMappings[cur], guestAddress)
  IN IF found = -1
     THEN SetRax(m, cur, STATUS_UNSUCCESSFUL)
     ELSE SetRax(VMX_inveptAll([m EXCEPT !.changedMappings[cur][found] = ZeroMapping], cur),
                 cur, STATUS_SUCCESS)

vmCallUnmapPage(m, cur) ==
  LET guestAddress == IF m.registers[cur].upper.RDX = 0 THEN m.registers[cur].RDX ELSE -PAGE_SIZE
      found == FoundMapping(m.changedMappings[cur], guestAddress)
  IN IF found = -1
     THEN SetRax(m, cur, STATUS_UNSUCCESSFUL)
     ELSE
       LET change == EPT_changeMapping(m, cur, guestAddress, guestAddress, TRUE, TRUE)
       IN IF ~NT_SUCCESS(change.ntStatus)
          THEN SetRax(change.m, cur, change.ntStatus)
          ELSE SetRax(VMX_inveptAll(
                         [change.m EXCEPT !.changedMappings[cur][found] = ZeroMapping], cur),
                      cur, STATUS_SUCCESS)

\* vmCallHandler that dispatches on bits 31:0 of RCX
vmCallHandlerLowCode(m, cur) ==
  LET vmCallCode == m.registers[cur].RCX
  IN IF vmCallCode = VMEXIT_VMCALL_INITIATE_SHUTDOWN.lower
     THEN [SetRax(m, cur, STATUS_SUCCESS) EXCEPT !.exits[cur].initiateShutdown = TRUE]
     ELSE IF vmCallCode = VMEXIT_VMCALL_MAP_PAGE THEN vmCallMapPage(m, cur)
     ELSE IF vmCallCode = VMEXIT_VMCALL_UNMAP_PAGE THEN vmCallUnmapPage(m, cur)
     ELSE m

\* vmCallHandler: dispatch on the 64 bits of RCX; the shutdown code sets
\* *initiateShutdown, any other code is ignored
vmCallHandler(m, cur) ==
  LET vmCallCode == [upper |-> m.registers[cur].upper.RCX, lower |-> m.registers[cur].RCX]
  IN IF vmCallCode = VMEXIT_VMCALL_INITIATE_SHUTDOWN
     THEN [SetRax(m, cur, STATUS_SUCCESS) EXCEPT !.exits[cur].initiateShutdown = TRUE]
     ELSE IF vmCallCode = UINT64(VMEXIT_VMCALL_MAP_PAGE) THEN vmCallMapPage(m, cur)
     ELSE IF vmCallCode = UINT64(VMEXIT_VMCALL_UNMAP_PAGE) THEN vmCallUnmapPage(m, cur)
     ELSE m

\* the record of core cur keyed by the page of the 64-bit address exitAddr
\* (exitAddr.offset = 0); the records hold addresses below 2^32
FoundExitMapping(m, cur, exitAddr) ==
  IF exitAddr.upper = 0
  THEN FoundMapping(m.changedMappings[cur], PageBase(exitAddr.lower))
  ELSE -1

\* eptViolationHandler with the two targets exchanged
eptViolationHandlerSwapped(m, cur) ==
  LET eptViolation == m.vmcs[cur].exitQualification
      mappings == m.changedMappings[cur]
      found == FoundExitMapping(m, cur, m.vmcs[cur].guestPhysicalAddress)
  IN IF found = -1
     THEN [m EXCEPT !.bugCheck = BSOD_VMEXIT_EPT_NO_MAPPING]
     ELSE IF eptViolation.dataRead \/ eptViolation.dataWrite
     THEN VMX_inveptAll(EPT_changeMapping(m, cur, mappings[found].guestAddress,
                                          mappings[found].hostFetchAddress, TRUE, FALSE).m, cur)
     ELSE IF eptViolation.instructionFetch
     THEN VMX_inveptAll(EPT_changeMapping(m, cur, mappings[found].guestAddress,
                                          mappings[found].hostRwAddress, FALSE, TRUE).m, cur)
     ELSE [m EXCEPT !.bugCheck = BSOD_VMEXIT_EPT_UNKNOWN]

\* eptViolationHandler that takes every access that is no data access for an
\* instruction fetch
eptViolationHandlerFetchByDefault(m, cur) ==
  LET eptViolation == m.vmcs[cur].exitQualification
      mappings == m.changedMappings[cur]
      found == FoundExitMapping(m, cur, m.vmcs[cur].guestPhysicalAddress)
  IN IF found = -1
     THEN [m EXCEPT !.bugCheck = BSOD_VMEXIT_EPT_NO_MAPPING]
     ELSE IF eptViolation.dataRead \/ eptViolation.dataWrite
     THEN VMX_inveptAll(EPT_changeMapping(m, cur, mappings[found].guestAddress,
                                          mappings[found].hostRwAddress, TRUE, FALSE).m, cur)
     ELSE VMX_inveptAll(EPT_changeMapping(m, cur, mappings[found].guestAddress,
                                          mappings[found].hostFetchAddress, FALSE, TRUE).m, cur)

\* eptViolationHandler that gives the record up once it has flipped the leaf
eptViolationHandlerForgetsRecord(m, cur) ==
  LET eptViolation == m.vmcs[cur].exitQualification
      mappings == m.changedMappings[cur]
      found == FoundExitMapping(m, cur, m.vmcs[cur].guestPhysicalAddress)
      Flipped(target, rw, fetch) ==
        [VMX_inveptAll(EPT_changeMapping(m, cur, mappings[found].guestAddress,
                                         target, rw, fetch).m, cur)
           EXCEPT !.changedMappings[cur][found].valid = FALSE]
  IN IF found = -1
     THEN [m EXCEPT !.bugCheck = BSOD_VMEXIT_EPT_NO_MAPPING]
     ELSE IF eptViolation.dataRead \/ eptViolation.dataWrite
     THEN Flipped(mappings[found].hostRwAddress, TRUE, FALSE)
     ELSE IF eptViolation.instructionFetch
     THEN Flipped(mappings[found].hostFetchAddress, FALSE, TRUE)
     ELSE [m EXCEPT !.bugCheck = BSOD_VMEXIT_EPT_UNKNOWN]

\* eptViolationHandler whose flip grants the access that trapped and keeps
\* granting the other kind
eptViolationHandlerGrantsAll(m, cur) ==
  LET eptViolation == m.vmcs[cur].exitQualification
      mappings == m.changedMappings[cur]
      found == FoundExitMapping(m, cur, m.vmcs[cur].guestPhysicalAddress)
  IN IF found = -1
     THEN [m EXCEPT !.bugCheck = BSOD_VMEXIT_EPT_NO_MAPPING]
     ELSE IF eptViolation.dataRead \/ eptViolation.dataWrite
     THEN VMX_inveptAll(EPT_changeMapping(m, cur, mappings[found].guestAddress,
                                          mappings[found].hostRwAddress, TRUE, TRUE).m, cur)
     ELSE IF eptViolation.instructionFetch
     THEN VMX_inveptAll(EPT_changeMapping(m, cur, mappings[found].guestAddress,
                                          mappings[found].hostFetchAddress, TRUE, TRUE).m, cur)
     ELSE [m EXCEPT !.bugCheck = BSOD_VMEXIT_EPT_UNKNOWN]

\* eptViolationHandler: the exit qualification and the guest-physical
\* address are read from the VMCS
eptViolationHandler(m, cur) ==
  LET eptViolation == m.vmcs[cur].exitQualification
      mappings == m.changedMappings[cur]
      found == FoundExitMapping(m, cur, m.vmcs[cur].guestPhysicalAddress)
  IN IF found = -1
     THEN [m EXCEPT !.bugCheck = BSOD_VMEXIT_EPT_NO_MAPPING]
     ELSE IF eptViolation.dataRead \/ eptViolation.dataWrite
     THEN VMX_inveptAll(EPT_changeMapping(m, cur, mappings[found].guestAddress,
                                          mappings[found].hostRwAddress, TRUE, FALSE).m, cur)
     ELSE IF eptViolation.instructionFetch
     THEN VMX_inveptAll(EPT_changeMapping(m, cur, mappings[found].guestAddress,
                                          mappings[found].hostFetchAddress, FALSE, TRUE).m, cur)
     ELSE [m EXCEPT !.bugCheck = BSOD_VMEXIT_EPT_UNKNOWN]

(* ----------------------------- CPUID ------------------------------------ *)
\* cpuidHandler that sets the hypervisor-present bit for every function
cpuidHandlerMarksAll(m, cur) ==
  LET cpuidFunction == m.registers[cur].RAX
      cpuidSubleaf == m.registers[cur].RCX
      cpuid == cpuidex(cpuidFunction, cpuidSubleaf)
      basicInformation0 ==
        IF cpuidFunction = IA32_CPUID_BASIC_INFORMATION_0
        THEN [cpuid EXCEPT ![2] = MultiChar(<<"c", "o", "v", "A">>),
                           ![4] = MultiChar(<<"I", "o", "d", "a">>),
                           ![3] = MultiChar(<<"l", "e", "t", "n">>)]
        ELSE cpuid
      basicInformation1 == [basicInformation0 EXCEPT ![3] = SetBit31(@)]
  IN [m EXCEPT !.registers[cur].RAX = basicInformation1[1],
               !.registers[cur].RBX = basicInformation1[2],
               !.registers[cur].RCX = basicInformation1[3],
               !.registers[cur].RDX = basicInformation1[4],
               !.registers[cur].upper = [RAX |-> SignExtension(basicInformation1[1]),
                                         RBX |-> SignExtension(basicInformation1[2]),
                                         RCX |-> SignExtension(basicInformation1[3]),
                                         RDX |-> SignExtension(basicInformation1[4])]]

\* cpuidHandler: cpuid[0 .. 3] are the elements 1 .. 4 here; vendor1, vendor3
\* and vendor2 of IA32_CpuidBasicInformation0 lie over cpuid[1], cpuid[2] and
\* cpuid[3], hypervisorPresentBit of IA32_CpuidBasicInformation1 is bit 31 of
\* cpuid[2]
cpuidHandler(m, cur) ==
  LET cpuidFunction == m.registers[cur].RAX
      cpuidSubleaf == m.registers[cur].RCX
      cpuid == cpuidex(cpuidFunction, cpuidSubleaf)
      basicInformation0 ==
        IF cpuidFunction = IA32_CPUID_BASIC_INFORMATION_0
        THEN [cpuid EXCEPT ![2] = MultiChar(<<"c", "o", "v", "A">>),
                           ![4] = MultiChar(<<"I", "o", "d", "a">>),
                           ![3] = MultiChar(<<"l", "e", "t", "n">>)]
        ELSE cpuid
      basicInformation1 ==
        IF cpuidFunction = IA32_CPUID_BASIC_INFORMATION_1
        THEN [basicInformation0 EXCEPT ![3] = SetBit31(@)]
        ELSE basicInformation0
  IN [m EXCEPT !.registers[cur].RAX = basicInformation1[1],
               !.registers[cur].RBX = basicInformation1[2],
               !.registers[cur].RCX = basicInformation1[3],
               !.registers[cur].RDX = basicInformation1[4],
               !.registers[cur].upper = [RAX |-> SignExtension(basicInformation1[1]),
                                         RBX |-> SignExtension(basicInformation1[2]),
                                         RCX |-> SignExtension(basicInformation1[3]),
                                         RDX |-> SignExtension(basicInformation1[4])]]

(* ----------------------------- VMEXIT_handler --------------------------- *)
\* VMEXIT_handler(registers) on processor cur. KeBugCheck does not return:
\* once a handler has bug-checked nothing more is done. The value returned is
\* exits[cur].initiateShutdown.
VMEXIT_handler(m, cur) ==
  LET entered == [m EXCEPT !.registers[cur].RSP = m.vmcs[cur].guestRsp]
      basicExitReason == m.vmcs[cur].exitReason
      handled ==
        IF basicExitReason = VMEXIT_CPUID THEN cpuidHandler(entered, cur)
        ELSE IF basicExitReason = VMEXIT_VMCALL THEN vmCallHandler(entered, cur)
        ELSE IF basicExitReason = VMEXIT_EPT_VIOLATION THEN eptViolationHandler(entered, cur)
        ELSE [entered EXCEPT !.bugCheck = BSOD_VMEXIT_UNKNOWN]
      incrementRIP == basicExitReason # VMEXIT_EPT_VIOLATION
      \* the statements after the switch, on the state the handler left
      AfterSwitch(afterHandler) ==
        LET instructionLength ==
              IF build = FoldingBuild THEN 0 ELSE afterHandler.vmcs[cur].instructionLength
            rip == IF build = FoldingBuild THEN 0 ELSE afterHandler.vmcs[cur].guestRip
            advanced ==
              IF incrementRIP
              THEN vmwrite(afterHandler, cur, "guestRip", rip + instructionLength)
              ELSE afterHandler
        IN IF afterHandler.bugCheck # BSOD_NONE
           THEN afterHandler
           ELSE vmwrite(advanced, cur, "guestRsp", advanced.registers[cur].RSP)
  IN CHOOSE returned \in {AfterSwitch(afterHandler) : afterHandler \in {handled}} : TRUE

\* A VM exit on processor cur: the processor stores the exit information and
\* the guest state in the VMCS, ASMPROC_vmExitHandler saves the guest
\* registers in the frame and calls VMEXIT_handler.
VmExit(m, cur, exitVmcs, frame) ==
  VMEXIT_handler([m EXCEPT !.vmcs[cur] = exitVmcs,
                           !.registers[cur] = frame,
                           !.exits[cur] = [vmcs |-> exitVmcs, registers |-> frame,
                                           effects |-> <<>>, initiateShutdown |-> FALSE]],
                cur)

(* ----------------------------- EPT hardware walk ----------------------- *)
\* the leaf the processor reaches for `address` through the EPT of core c:
\* the 2 MiB leaf itself, or the 4 KiB leaf of the page table it points at
EptLeaf(c, address) ==
  LET pde == pd[c][PdEntry(address)]
  IN IF pde.isLargePage
     THEN [readAccess |-> pde.readAccess, writeAccess |-> pde.writeAccess,
           fetchAccess |-> pde.fetchAccess, memoryType |-> pde.memoryType,
           pageFrameNumber |-> EPT_PT_ENTRIES * pde.pageFrameNumber + PtEntry(address)]
     ELSE splitBuffer[Memory_getVirtualCore(pde.pageFrameNumber)]
                     [Memory_getVirtualSlot(pde.pageFrameNumber)][PtEntry(address)]

\* VMEXIT_EptViolation qualifications of a data read, a read-modify-write, a
\* data write and an instruction fetch
Qualifications ==
  { [dataRead |-> TRUE, dataWrite |-> FALSE, instructionFetch |-> FALSE],
    [dataRead |-> TRUE, dataWrite |-> TRUE, instructionFetch |-> FALSE],
    [dataRead |-> FALSE, dataWrite |-> TRUE, instructionFetch |-> FALSE],
    [dataRead |-> FALSE, dataWrite |-> FALSE, instructionFetch |-> TRUE] }

\* the processor raises an EPT violation when the leaf denies the access
AccessDenied(leaf, eptViolation) ==
  \/ eptViolation.dataRead /\ ~leaf.readAccess
  \/ eptViolation.dataWrite /\ ~leaf.writeAccess
  \/ eptViolation.instructionFetch /\ ~leaf.fetchAccess

(* ----------------------------- the caller ------------------------------- *)
\* the pages of the caller's i-th request: the page to map, its read/write
\* target and its fetch target, three distinct pages of region Region(i)
GuestOf(i) == AddressOf(Region(i), 3 * Round(i))
RwOf(i) == AddressOf(Region(i), 3 * Round(i) + 1)
FetchOf(i) == AddressOf(Region(i), 3 * Round(i) + 2)

\* the requests the caller currently has installed, and the latest of them
Installed == {i \in 1 .. top : ~(i = 1 /\ firstOut)}
Latest == CHOOSE i \in Installed : \A j \in Installed : j <= i
NextFill == IF top < MaxFill THEN top + 1 ELSE MaxFill

\* what the caller passes to PAGE_SWAPPER_map: its next request, the same
\* with one address unaligned, and requests that alias its latest mapping
MapInputs ==
  LET k == NextFill
  IN {<<GuestOf(k), RwOf(k), FetchOf(k)>>,
      <<GuestOf(k) + 1, RwOf(k), FetchOf(k)>>,
      <<GuestOf(k), RwOf(k) + 8, FetchOf(k)>>,
      <<GuestOf(k), RwOf(k), FetchOf(k) + PAGE_SIZE - 1>>}
     \cup
     (IF Installed = {} THEN {}
      ELSE {<<GuestOf(Latest), RwOf(k), FetchOf(k)>>,
            <<RwOf(Latest), RwOf(k), FetchOf(k)>>,
            <<FetchOf(Latest), RwOf(k), FetchOf(k)>>,
            <<GuestOf(k), GuestOf(Latest), FetchOf(k)>>,
            <<GuestOf(k), RwOf(k), GuestOf(Latest)>>})

\* what the caller passes to PAGE_SWAPPER_unmap: a page it has not mapped,
\* a page that is only a target, an unaligned address, its latest mapping
\* while it holds few or nearly all of its pages, and its first mapping once
\* it has issued CONTEXT_EPT_MAX_MAPPINGS requests
CanRelease == top <= MaxLowRelease \/ top >= CONTEXT_EPT_MAX_MAPPINGS - 1
UnmapInputs ==
  {GuestOf(NextFill)}
  \cup (IF Installed = {} THEN {}
        ELSE {RwOf(Latest), FetchOf(Latest), GuestOf(Latest) + 1})
  \cup (IF Installed # {} /\ CanRelease THEN {GuestOf(Latest)} ELSE {})
  \cup (IF top >= CONTEXT_EPT_MAX_MAPPINGS /\ ~firstOut THEN {GuestOf(1)} ELSE {})

(* ----------------------------- page_swapper.c --------------------------- *)
\* the VMCS at the VM exit of the VMCALL instruction of VMX_vmcall, a
\* three-byte instruction of the driver
VMX_vmcallExit ==
  [exitReason |-> VMEXIT_VMCALL, exitQualification |-> NoAccess,
   guestPhysicalAddress |-> UINT64(0), instructionLength |-> 3,
   guestRip |-> 2097152, guestRsp |-> 3145728]

\* VMX_vmcall(rcx, rdx, r8, r9) on processor cur: the arguments are in the
\* registers of the calling convention when VMCALL exits to VMEXIT_handler,
\* the other registers of the driver are not modelled; rcx is given as a
\* UINT64
VMX_vmcall(m, cur, rcx, rdx, r8, r9) ==
  VmExit(m, cur, VMX_vmcallExit,
         [ZeroRegisters EXCEPT !.RCX = rcx.lower, !.upper.RCX = rcx.upper,
                               !.RDX = rdx, !.R8 = r8, !.R9 = r9])

\* KeIpiGenericCall(PAGE_SWAPPER_mapIpi / PAGE_SWAPPER_unmapIpi, &mapping):
\* the worker runs on every logical core, cores 0 .. (n - 1) here
RECURSIVE KeIpiGenericCall(_, _, _, _, _, _)
KeIpiGenericCall(m, n, rcx, rdx, r8, r9) ==
  IF n = 0 THEN m
  ELSE CHOOSE after \in {VMX_vmcall(before, n - 1, rcx, rdx, r8, r9) :
                           before \in {KeIpiGenericCall(m, n - 1, rcx, rdx, r8, r9)}} : TRUE

\* the value KeIpiGenericCall hands back: success iff every core succeeded
KeIpiGenericCallResult(m) ==
  IF \A c \in Cores : NT_SUCCESS(m.registers[c].RAX)
  THEN STATUS_SUCCESS ELSE STATUS_UNSUCCESSFUL

SetMachine(m) ==
  /\ pml4' = m.pml4
  /\ pd' = m.pd
  /\ splitBuffer' = m.splitBuffer
  /\ noOfUsedSplits' = m.noOfUsedSplits
  /\ changedMappings' = m.changedMappings
  /\ registers' = m.registers
  /\ vmcs' = m.vmcs
  /\ exits' = m.exits
  /\ bugCheck' = m.bugCheck

Running == phase = "running" /\ bugCheck = BSOD_NONE

\* the processor after ASMPROC_vmExitHandler ran VMEXIT_handler: when the
\* handler returned TRUE the trampoline executes VMXOFF and returns to the
\* caller of VMCALL outside VMX operation, else it resumes the guest
ASMPROC_vmExitHandler(m, c, state) == IF m.exits[c].initiateShutdown THEN "off" ELSE state

\* physical frame of the PML4 of logical core owner, a block of the pool
\* behind the context
Pml4Pfn(owner) == ContextBasePfn + (MaxLogicalCores + 1) * CONTEXT_EPT_NO_SPLITS + owner
\* Memory_getVirtualAddress of a PML4 frame: the core the PML4 was built for
Pml4Owner(pfn) == pfn - Pml4Pfn(0)
\* EPT_setupDefaltStructures: the EPT_EptP bits it stores, memoryType in bits
\* 2:0, oneLessPageWalkLen in bits 5:3, pageFrameNumber from bit 12
EptpBits(owner) ==
  EPT_PAGING_STRUCTURE_MEMORY_TYPE_WB + (EPT_PAGE_WALK_LEN - 1) * 8 + Pml4Pfn(owner) * PAGE_SIZE

\* destroyPml4(noOfPml4Entries, pml4) on the blocks of one EPT structure:
\* the page directories and the PDPT of each entry, then the PML4
destroyPml4(blocks, noOfPml4Entries) ==
  [b \in 1 .. Len(EptBlocks) |->
     IF EptBlocks[b] = "pml4" \/ noOfPml4Entries > 0 THEN Memory_free(blocks[b]) ELSE blocks[b]]

\* EPT_destroyEPTStructure(eptpBits) that frees the PML4 only
EPT_destroyEPTStructurePml4Only(h, eptpBits) ==
  LET owner == Pml4Owner(eptpBits \div PAGE_SIZE)
  IN [h EXCEPT !.ept[owner] = destroyPml4(@, 0)]

\* EPT_destroyEPTStructure(eptpBits)
EPT_destroyEPTStructure(h, eptpBits) ==
  LET owner == Pml4Owner(eptpBits \div PAGE_SIZE)
  IN [h EXCEPT !.ept[owner] = destroyPml4(@, getPml4Count)]

\* the pool after EPT_setupDefaltStructures(&logicalCores[owner].eptp) whose
\* first `available` calls of Memory_allocate return a block: with all three
\* blocks the structure is built and, when a later step fails, destroyed
\* whole; with fewer, setupPml4Entry frees the PDPT it holds and
\* destroyPml4(0, pml4) frees the PML4
EptHeapAfterSetup(h, owner, available, ntStatus) ==
  LET taken == [b \in 1 .. Len(EptBlocks) |-> IF b <= available THEN "allocated" ELSE h.ept[owner][b]]
  IN [h EXCEPT !.ept[owner] =
        IF NT_SUCCESS(ntStatus) THEN taken
        ELSE IF available = Len(EptBlocks) THEN destroyPml4(taken, 1)
        ELSE [b \in 1 .. Len(EptBlocks) |-> IF b <= available THEN Memory_free(taken[b]) ELSE taken[b]]]

(* ----------------------------- actions ---------------------------------- *)
\* VMM_enable, one iteration of its EPT loop; the thread runs on any processor
VMM_enable_EptSetup(cur) ==
  /\ phase = "enabling"
  /\ buildIndex < noOfLogicalCores
  /\ \E r \in {EPT_setupDefaltStructures(Machine, cur, buildIndex)} :
        /\ SetMachine(r.m)
        /\ status' = r.ntStatus
        /\ heap' = EptHeapAfterSetup(heap, buildIndex, Len(EptBlocks), r.ntStatus)
        /\ IF NT_SUCCESS(r.ntStatus)
           THEN /\ buildIndex' = buildIndex + 1
                /\ phase' = phase
                /\ eptp' = [eptp EXCEPT ![buildIndex] = EptpBits(buildIndex)]
           ELSE /\ buildIndex' = buildIndex
                /\ phase' = "disabling"
                /\ eptp' = eptp
  /\ UNCHANGED <<hw, build, overlay, instruction, noOfLogicalCores, isVirtualized, vmx, top, firstOut, ioStatus>>

\* VMM_enable, an iteration of its EPT loop in which Memory_allocate returns
\* NULL after `available` blocks: EPT_setupDefaltStructures frees what it
\* holds and fails, VMM_enable calls VMM_disable
VMM_enable_EptSetupNoMemory(available) ==
  /\ phase = "enabling"
  /\ buildIndex < noOfLogicalCores
  /\ available < Len(EptBlocks)
  /\ status' = STATUS_UNSUCCESSFUL
  /\ heap' = EptHeapAfterSetup(heap, buildIndex, available, STATUS_UNSUCCESSFUL)
  /\ phase' = "disabling"
  /\ UNCHANGED <<hw, build, overlay, instruction, noOfLogicalCores, buildIndex, isVirtualized, eptp, vmx, pml4, pd, splitBuffer,
                 noOfUsedSplits, changedMappings, registers, vmcs, exits, bugCheck, top,
                 firstOut, ioStatus>>

\* VMM_enable, KeIpiGenericCall(virtualizeLogicalCore): every core launches
VMM_enable_Virtualize ==
  /\ phase = "enabling"
  /\ buildIndex = noOfLogicalCores
  /\ isVirtualized' = [c \in Cores |-> TRUE]
  /\ vmx' = [c \in Cores |-> "guest"]
  /\ status' = STATUS_SUCCESS
  /\ phase' = "running"
  /\ UNCHANGED <<hw, build, overlay, instruction, noOfLogicalCores, buildIndex, eptp, heap, pml4, pd, splitBuffer, noOfUsedSplits,
                 changedMappings,
                 registers, vmcs, exits, bugCheck, top, firstOut, ioStatus>>

\* PAGE_SWAPPER_map(page, rwPage, fPage), the arguments given as the
\* physical addresses Memory_getPhysicalAddress returns for them
PAGE_SWAPPER_map(guestAddress, hostRwAddress, hostFetchAddress) ==
  /\ Running
  /\ \A c \in Cores : vmx[c] = "guest"
  /\ \E m \in {KeIpiGenericCall(Machine, noOfLogicalCores, UINT64(VMEXIT_VMCALL_MAP_PAGE),
                                guestAddress, hostRwAddress, hostFetchAddress)} :
        /\ SetMachine(m)
        /\ top' = IF /\ NT_SUCCESS(KeIpiGenericCallResult(m))
                     /\ top < MaxFill
                     /\ guestAddress = GuestOf(NextFill)
                  THEN top + 1 ELSE top
  /\ UNCHANGED <<hw, build, overlay, instruction, noOfLogicalCores, phase, status, buildIndex, isVirtualized, eptp, vmx, heap,
                 firstOut>>

\* PAGE_SWAPPER_unmap(page)
PAGE_SWAPPER_unmap(guestAddress) ==
  /\ Running
  /\ \A c \in Cores : vmx[c] = "guest"
  /\ \E m \in {KeIpiGenericCall(Machine, noOfLogicalCores, UINT64(VMEXIT_VMCALL_UNMAP_PAGE),
                                guestAddress, 0, 0)} :
       LET ok == NT_SUCCESS(KeIpiGenericCallResult(m))
           latest == ok /\ Installed # {} /\ guestAddress = GuestOf(Latest)
       IN /\ SetMachine(m)
          /\ top' = IF latest THEN top - 1 ELSE top
          /\ firstOut' = IF latest /\ top = 1 THEN FALSE
                         ELSE IF ok /\ ~latest /\ guestAddress = GuestOf(1) THEN TRUE
                         ELSE firstOut
  /\ UNCHANGED <<hw, build, overlay, instruction, noOfLogicalCores, phase, status, buildIndex, isVirtualized, eptp, vmx, heap>>

\* DeviceControl that completes a DRIVER_MAP request with its initial status
\* instead of the status PAGE_SWAPPER_map returns
DeviceControlDropsStatus(ioControlCode, inputBufferLength, arguments) ==
  /\ Running
  /\ IF ioControlCode = DRIVER_MAP
     THEN IF inputBufferLength < 3 * SIZEOF_PVOID
          THEN /\ ioStatus' = STATUS_INVALID_PARAMETER
               /\ UNCHANGED <<pml4, pd, splitBuffer, noOfUsedSplits, changedMappings, registers,
                              vmcs, exits, bugCheck, top, firstOut>>
          ELSE /\ PAGE_SWAPPER_map(arguments[1], arguments[2], arguments[3])
               /\ ioStatus' = STATUS_SUCCESS
     ELSE IF ioControlCode = DRIVER_UNMAP
     THEN IF inputBufferLength < SIZEOF_PVOID
          THEN /\ ioStatus' = STATUS_INVALID_PARAMETER
               /\ UNCHANGED <<pml4, pd, splitBuffer, noOfUsedSplits, changedMappings, registers,
                              vmcs, exits, bugCheck, top, firstOut>>
          ELSE /\ PAGE_SWAPPER_unmap(arguments[1])
               /\ ioStatus' = KeIpiGenericCallResult(Machine')
     ELSE /\ ioStatus' = STATUS_INVALID_DEVICE_REQUEST
          /\ UNCHANGED <<pml4, pd, splitBuffer, noOfUsedSplits, changedMappings, registers,
                         vmcs, exits, bugCheck, top, firstOut>>
  /\ UNCHANGED <<hw, build, overlay, instruction, noOfLogicalCores, phase, status, buildIndex, isVirtualized, eptp, vmx, heap>>

\* DeviceControl that forwards a request without looking at the length of its
\* input buffer
DeviceControlUnchecked(ioControlCode, inputBufferLength, arguments) ==
  /\ Running
  /\ IF ioControlCode = DRIVER_MAP
     THEN /\ PAGE_SWAPPER_map(arguments[1], arguments[2], arguments[3])
          /\ ioStatus' = KeIpiGenericCallResult(Machine')
     ELSE IF ioControlCode = DRIVER_UNMAP
     THEN /\ PAGE_SWAPPER_unmap(arguments[1])
          /\ ioStatus' = KeIpiGenericCallResult(Machine')
     ELSE /\ ioStatus' = STATUS_INVALID_DEVICE_REQUEST
          /\ UNCHANGED <<pml4, pd, splitBuffer, noOfUsedSplits, changedMappings, registers,
                         vmcs, exits, bugCheck, top, firstOut>>
  /\ UNCHANGED <<hw, build, overlay, instruction, noOfLogicalCores, phase, status, buildIndex, isVirtualized, eptp, vmx, heap>>

\* DeviceControl(deviceObject, irp): the request carries ioControlCode, an
\* input buffer of inputBufferLength bytes and the pointers `arguments`, here
\* the physical addresses Memory_getPhysicalAddress returns for them
DeviceControl(ioControlCode, inputBufferLength, arguments) ==
  /\ Running
  /\ IF ioControlCode = DRIVER_MAP
     THEN IF inputBufferLength < 3 * SIZEOF_PVOID
          THEN /\ ioStatus' = STATUS_INVALID_PARAMETER
               /\ UNCHANGED <<pml4, pd, splitBuffer, noOfUsedSplits, changedMappings, registers,
                              vmcs, exits, bugCheck, top, firstOut>>
          ELSE /\ PAGE_SWAPPER_map(arguments[1], arguments[2], arguments[3])
               /\ ioStatus' = KeIpiGenericCallResult(Machine')
     ELSE IF ioControlCode = DRIVER_UNMAP
     THEN IF inputBufferLength < SIZEOF_PVOID
          THEN /\ ioStatus' = STATUS_INVALID_PARAMETER
               /\ UNCHANGED <<pml4, pd, splitBuffer, noOfUsedSplits, changedMappings, registers,
                              vmcs, exits, bugCheck, top, firstOut>>
          ELSE /\ PAGE_SWAPPER_unmap(arguments[1])
               /\ ioStatus' = KeIpiGenericCallResult(Machine')
     ELSE /\ ioStatus' = STATUS_INVALID_DEVICE_REQUEST
          /\ UNCHANGED <<pml4, pd, splitBuffer, noOfUsedSplits, changedMappings, registers,
                         vmcs, exits, bugCheck, top, firstOut>>
  /\ UNCHANGED <<hw, build, overlay, instruction, noOfLogicalCores, phase, status, buildIndex, isVirtualized, eptp, vmx, heap>>

\* the requests the caller sends to the control device: its installs and
\* removes with full input buffers and, while it holds few pages, requests
\* with a short input buffer and a request with an unknown control code
ControlRequests ==
  {[ioControlCode |-> DRIVER_MAP, inputBufferLength |-> 3 * SIZEOF_PVOID, arguments |-> in] :
     in \in MapInputs}
  \cup {[ioControlCode |-> DRIVER_UNMAP, inputBufferLength |-> SIZEOF_PVOID,
         arguments |-> <<x, 0, 0>>] : x \in UnmapInputs}
  \cup (IF top > MaxLowRelease THEN {}
        ELSE {[ioControlCode |-> DRIVER_MAP, inputBufferLength |-> 2 * SIZEOF_PVOID,
               arguments |-> <<GuestOf(NextFill), RwOf(NextFill), 0>>],
              [ioControlCode |-> DRIVER_UNMAP, inputBufferLength |-> 0,
               arguments |-> <<0, 0, 0>>],
              [ioControlCode |-> 0, inputBufferLength |-> 3 * SIZEOF_PVOID,
               arguments |-> <<GuestOf(NextFill), RwOf(NextFill), FetchOf(NextFill)>>]})

\* the guest code that runs when a core leaves the guest: its RIP and RSP
GuestStates == {[rip |-> 4198400, rsp |-> 8392704], [rip |-> 4198416, rsp |-> 8392672]}

\* the VMCS at an EPT violation
EptViolationExit(guest, guestPhysicalAddress, eptViolation) ==
  [exitReason |-> VMEXIT_EPT_VIOLATION, exitQualification |-> eptViolation,
   guestPhysicalAddress |-> guestPhysicalAddress, instructionLength |-> 0,
   guestRip |-> guest.rip, guestRsp |-> guest.rsp]

\* VMEXIT_handler, case VMEXIT_EPT_VIOLATION: the guest on core cur accesses
\* guestPhysicalAddress and the EPT leaf denies the access; the register
\* frame of this exit holds the guest's registers, which are not modelled
EptViolation(cur, guestPhysicalAddress, eptViolation) ==
  /\ Running
  /\ vmx[cur] = "guest"
  /\ AccessDenied(EptLeaf(cur, guestPhysicalAddress), eptViolation)
  /\ \E guest \in GuestStates :
       \E m \in {VmExit(Machine, cur,
                        EptViolationExit(guest, UINT64(guestPhysicalAddress), eptViolation),
                        ZeroRegisters)} : SetMachine(m)
  /\ ioStatus' = IRP_NONE
  /\ UNCHANGED <<hw, build, overlay, instruction, noOfLogicalCores, phase, status, buildIndex, isVirtualized, eptp, vmx, heap,
                 top, firstOut>>

\* the guest-physical addresses guest code touches
TouchedAddresses == {GuestOf(i) + 8 : i \in 1 .. MaxTouched}

\* the instructions of the guest that are followed: the bytes of the
\* instruction lie at `code`, it has no operand in memory (NoAccess) or reads
\* or writes one at `data`; each lies in the first or in the second page of
\* the caller
GuestInstructions ==
  {[running |-> TRUE, code |-> GuestOf(i) + 8, data |-> GuestOf(j) + 64, access |-> q] :
     i \in 1 .. (MaxTouched + 1), j \in 1 .. (MaxTouched + 1),
     q \in {NoAccess} \cup {k \in Qualifications : ~k.instructionFetch}}

\* the guest on core cur comes to instruction i
GuestBegins(cur, i) ==
  /\ Running
  /\ vmx[cur] = "guest"
  /\ ~instruction[cur].running
  /\ instruction' = [instruction EXCEPT ![cur] = i]
  /\ UNCHANGED <<hw, build, overlay, noOfLogicalCores, phase, status, buildIndex, isVirtualized, eptp, vmx,
                 heap, pml4, pd, splitBuffer, noOfUsedSplits, changedMappings, registers, vmcs, exits,
                 bugCheck, top, firstOut, ioStatus>>

\* the processor executes the instruction of core cur: it fetches the bytes
\* of the instruction, then accesses the operand; the first access the EPT
\* denies leaves to VMEXIT_handler, case VMEXIT_EPT_VIOLATION, which does not
\* advance RIP: the guest resumes at the same instruction
GuestTraps(cur) ==
  LET i == instruction[cur]
      fetch == [dataRead |-> FALSE, dataWrite |-> FALSE, instructionFetch |-> TRUE]
  IN /\ i.running
     /\ IF AccessDenied(EptLeaf(cur, i.code), fetch)
        THEN EptViolation(cur, i.code, fetch)
        ELSE i.access # NoAccess /\ EptViolation(cur, i.data, i.access)

\* the EPT grants the fetch and the access to the operand: the instruction
\* of core cur retires
GuestRetires(cur) ==
  LET i == instruction[cur]
      fetch == [dataRead |-> FALSE, dataWrite |-> FALSE, instructionFetch |-> TRUE]
  IN /\ Running
     /\ vmx[cur] = "guest"
     /\ i.running
     /\ ~AccessDenied(EptLeaf(cur, i.code), fetch)
     /\ ~AccessDenied(EptLeaf(cur, i.data), i.access)
     /\ instruction' = [instruction EXCEPT ![cur] = NoInstruction]
     /\ UNCHANGED <<hw, build, overlay, noOfLogicalCores, phase, status, buildIndex, isVirtualized, eptp,
                    vmx, heap, pml4, pd, splitBuffer, noOfUsedSplits, changedMappings, registers, vmcs,
                    exits, bugCheck, top, firstOut, ioStatus>>

\* the VMCS at the VM exit of an instruction of the guest
InstructionExit(exitReason, guest, instructionLength) ==
  [exitReason |-> exitReason, exitQualification |-> NoAccess,
   guestPhysicalAddress |-> UINT64(0), instructionLength |-> instructionLength,
   guestRip |-> guest.rip, guestRsp |-> guest.rsp]

\* ASMPROC_vmExitHandler: the guest on core cur leaves to the hypervisor with
\* the VMCS exitVmcs and the registers frame; VMEXIT_handler runs and the
\* trampoline resumes the guest or leaves VMX operation
GuestExit(cur, exitVmcs, frame) ==
  /\ Running
  /\ vmx[cur] = "guest"
  /\ \E m \in {VmExit(Machine, cur, exitVmcs, frame)} :
        /\ SetMachine(m)
        /\ vmx' = [vmx EXCEPT ![cur] = ASMPROC_vmExitHandler(m, cur, @)]
  /\ ioStatus' = IRP_NONE
  /\ UNCHANGED <<hw, build, overlay, instruction, noOfLogicalCores, phase, status, buildIndex, isVirtualized, eptp, heap, top,
                 firstOut>>

\* VMEXIT_handler, case VMEXIT_CPUID: the guest executes CPUID with the
\* UINT64 rax in RAX and the subleaf in RCX
GuestCpuid(cur, guest, instructionLength, rax, subleaf) ==
  GuestExit(cur, InstructionExit(VMEXIT_CPUID, guest, instructionLength),
            [ZeroRegisters EXCEPT !.RAX = rax.lower, !.upper.RAX = rax.upper, !.RCX = subleaf])

\* VMEXIT_handler, case VMEXIT_VMCALL: code of the guest other than
\* VMX_vmcall executes VMCALL, its registers hold rax, the UINT64 rcx and rdx
GuestVmcall(cur, guest, instructionLength, rax, rcx, rdx) ==
  GuestExit(cur, InstructionExit(VMEXIT_VMCALL, guest, instructionLength),
            [ZeroRegisters EXCEPT !.RAX = rax, !.RCX = rcx.lower, !.upper.RCX = rcx.upper,
                                  !.RDX = rdx])

\* VMEXIT_handler, default case: a VM exit with another basic exit reason
GuestOtherExit(cur, guest, instructionLength, exitReason) ==
  /\ exitReason \notin {VMEXIT_CPUID, VMEXIT_VMCALL, VMEXIT_EPT_VIOLATION}
  /\ GuestExit(cur, InstructionExit(exitReason, guest, instructionLength), ZeroRegisters)

\* the first guest-physical address of entry pml4Entry of a PML4, 2^39 bytes
\* per entry, as a UINT64
Pml4EntryBase(pml4Entry) == [upper |-> pml4Entry * 128, lower |-> 0]

\* VMEXIT_handler, case VMEXIT_VMCALL: code of the guest executes VMCALL
\* with the install or the remove code in RCX and, in RDX, the first address
\* of entry pml4Entry of the PML4, an entry that points at no PDPT
GuestVmcallAbove(cur, guest, instructionLength, rcx, pml4Entry) ==
  /\ pml4[cur][pml4Entry].pageFrameNumber = 0
  /\ GuestExit(cur, InstructionExit(VMEXIT_VMCALL, guest, instructionLength),
               [ZeroRegisters EXCEPT !.RAX = STATUS_UNSUCCESSFUL, !.RCX = rcx,
                                     !.upper.RDX = Pml4EntryBase(pml4Entry).upper,
                                     !.R8 = RwOf(1), !.R9 = FetchOf(1)])

\* VMEXIT_handler, case VMEXIT_EPT_VIOLATION, for the violations no mapping
\* of the driver causes: an access to an address behind the PML4 entries
\* EPT_setupDefaltStructures fills, and an exit whose qualification names
\* none of the three kinds of access
GuestEptFault(cur, guest, guestPhysicalAddress, eptViolation) ==
  /\ \/ guestPhysicalAddress.upper >= Pml4EntryBase(EPT_WINDOWS_MAX_PML4_COUNT).upper
     \/ eptViolation = NoAccess
  /\ GuestExit(cur, EptViolationExit(guest, guestPhysicalAddress, eptViolation), ZeroRegisters)

\* the lengths of the instructions that leave the guest: CPUID has two
\* bytes and VMCALL three, a prefix adds one
CpuidLengths == {2, 3}
VmcallLengths == {3, 4}
\* what the guest has in RAX when it executes CPUID
CpuidFunctions ==
  {UINT64(IA32_CPUID_BASIC_INFORMATION_0), UINT64(IA32_CPUID_BASIC_INFORMATION_1), UINT64(4),
   [upper |-> 1, lower |-> IA32_CPUID_BASIC_INFORMATION_0], UINT64(INT32_MIN),
   UINT64(INT32_MIN + 8)}
CpuidSubleaves == {0, 1}
\* what the guest has in RCX and RDX when code other than VMX_vmcall
\* executes VMCALL: the shutdown code, a code the handler does not know, the
\* install code with other upper bits, an install of an unaligned page and a
\* remove of a page that is not mapped
VmcallInputs ==
  {<<VMEXIT_VMCALL_INITIATE_SHUTDOWN, 0>>,
   <<UINT64(0), GuestOf(1)>>,
   <<[upper |-> 1, lower |-> VMEXIT_VMCALL_MAP_PAGE], GuestOf(1)>>,
   <<UINT64(VMEXIT_VMCALL_MAP_PAGE), GuestOf(1) + 1>>,
   <<UINT64(VMEXIT_VMCALL_UNMAP_PAGE), GuestOf(MaxFill)>>}
\* the basic exit reasons of the exits the VMCS of the driver does not ask
\* for: exception or NMI, triple fault, HLT, RDMSR
OtherExitReasons == {0, 2, 12, 31}
\* the guest-physical addresses and qualifications of the violations no
\* mapping causes
EptFaults ==
  {<<Pml4EntryBase(EPT_WINDOWS_MAX_PML4_COUNT), q>> : q \in Qualifications}
  \cup {<<UINT64(a), NoAccess>> : a \in TouchedAddresses}
\* the requests of a caller of the control device that installs few pages
ExitRequests == {r \in ControlRequests : r.ioControlCode = DRIVER_MAP => top < MaxExitFill}

(* ----------------------------- vmm.c, driver.c: lifecycle ---------------- *)
\* the step at which virtualizeLogicalCore leaves on a core, "virtualized"
\* when every step succeeds
VirtualizeOutcomes == {"prerequisites", "controlRegisters", "vmxon", "vmcs", "launch", "virtualized"}

\* virtualizeLogicalCore on one core: its return value, the flag of the core
\* and the processor, which is outside VMX operation after a failure (VMXON not
\* executed, or __vmx_off after a failing VMCS_setup or ASMPROC_enterVmcs)
virtualizeLogicalCore(outcome) ==
  IF outcome = "virtualized"
  THEN [ntStatus |-> STATUS_SUCCESS, isVirtualized |-> TRUE, vmx |-> "guest"]
  ELSE [ntStatus |-> STATUS_UNSUCCESSFUL, isVirtualized |-> FALSE, vmx |-> "off"]

\* the value KeIpiGenericCall hands back for the values the workers returned:
\* success iff every core succeeded
KeIpiGenericCallValue(values) ==
  IF \A c \in DOMAIN values : NT_SUCCESS(values[c]) THEN STATUS_SUCCESS ELSE STATUS_UNSUCCESSFUL

\* VMM_enable, KeIpiGenericCall(virtualizeLogicalCore) in which some core
\* fails: the others launch, VMM_enable finds a core that is not virtualized
\* and calls VMM_disable
VMM_enable_VirtualizeFails(outcome) ==
  /\ phase = "enabling"
  /\ buildIndex = noOfLogicalCores
  /\ \E c \in Cores : outcome[c] # "virtualized"
  /\ isVirtualized' = [c \in Cores |-> virtualizeLogicalCore(outcome[c]).isVirtualized]
  /\ vmx' = [c \in Cores |-> virtualizeLogicalCore(outcome[c]).vmx]
  /\ status' = KeIpiGenericCallValue([c \in Cores |-> virtualizeLogicalCore(outcome[c]).ntStatus])
  /\ phase' = "disabling"
  /\ UNCHANGED <<hw, build, overlay, instruction, noOfLogicalCores, buildIndex, eptp, heap, pml4, pd, splitBuffer, noOfUsedSplits,
                 changedMappings, registers, vmcs, exits, bugCheck, top, firstOut, ioStatus>>

\* restoreLogicalCore that issues the shutdown VMCALL whatever the flag says
restoreLogicalCoreAlways(m, cur, virtualized) ==
  VMX_vmcall(m, cur, VMEXIT_VMCALL_INITIATE_SHUTDOWN, 0, 0, 0)

\* restoreLogicalCore on processor cur, whose isVirtualized flag is
\* `virtualized`
restoreLogicalCore(m, cur, virtualized) ==
  IF virtualized THEN VMX_vmcall(m, cur, VMEXIT_VMCALL_INITIATE_SHUTDOWN, 0, 0, 0) ELSE m

\* KeIpiGenericCall(restoreLogicalCore, 0) on cores 0 .. (n - 1)
RECURSIVE KeIpiGenericCall_restore(_, _)
KeIpiGenericCall_restore(m, n) ==
  IF n = 0 THEN m
  ELSE CHOOSE after \in {restoreLogicalCore(before, n - 1, isVirtualized[n - 1]) :
                           before \in {KeIpiGenericCall_restore(m, n - 1)}} : TRUE

\* VMM_disable, KeIpiGenericCall(restoreLogicalCore): every virtualized core
\* issues the shutdown VMCALL from the guest, the trampoline leaves VMX
\* operation and the worker clears the flag
VMM_disable_Restore ==
  /\ phase = "disabling"
  /\ bugCheck = BSOD_NONE
  /\ \A c \in Cores : isVirtualized[c] => vmx[c] = "guest"
  /\ \E m \in {KeIpiGenericCall_restore(Machine, noOfLogicalCores)} :
       /\ SetMachine(m)
       /\ vmx' = [c \in Cores |->
                    IF isVirtualized[c] THEN ASMPROC_vmExitHandler(m, c, vmx[c]) ELSE vmx[c]]
  /\ isVirtualized' = [c \in Cores |-> FALSE]
  /\ phase' = "destroying"
  /\ UNCHANGED <<hw, build, overlay, instruction, noOfLogicalCores, status, buildIndex, eptp, heap, top, firstOut, ioStatus>>

\* VMM_disable, the loop over the cores: the pool after the first n cores
RECURSIVE VMM_disable_destroyed(_, _)
VMM_disable_destroyed(h, n) ==
  IF n = 0 THEN h
  ELSE IF eptp[n - 1] # 0
  THEN EPT_destroyEPTStructure(VMM_disable_destroyed(h, n - 1), eptp[n - 1])
  ELSE VMM_disable_destroyed(h, n - 1)

\* VMM_disable, the loop that destroys the EPT structure of every core whose
\* eptp is not 0; VMM_disable returns to VMM_enable, which returns its failure
\* status to DriverEntry, or to DriverUnload
VMM_disable_Destroy ==
  /\ phase = "destroying"
  /\ heap' = VMM_disable_destroyed(heap, noOfLogicalCores)
  /\ phase' = IF NT_SUCCESS(status) THEN "unloading" ELSE "failed"
  /\ UNCHANGED <<hw, build, overlay, instruction, noOfLogicalCores, status, buildIndex, isVirtualized, eptp, vmx, pml4, pd,
                 splitBuffer, noOfUsedSplits, changedMappings, registers, vmcs, exits, bugCheck,
                 top, firstOut, ioStatus>>

\* DriverUnload(driverObject) of the loaded driver: the context is not NULL,
\* VMM_disable is called
DriverUnload ==
  /\ Running
  /\ phase' = "disabling"
  /\ ioStatus' = IRP_NONE
  /\ UNCHANGED <<hw, build, overlay, instruction, noOfLogicalCores, status, buildIndex, isVirtualized, eptp, vmx, heap, pml4, pd,
                 splitBuffer, noOfUsedSplits, changedMappings, registers, vmcs, exits, bugCheck,
                 top, firstOut>>

\* Context_destroy(), called by DriverEntry after a failing VMM_enable and by
\* DriverUnload after VMM_disable
Context_destroy ==
  /\ phase \in {"failed", "unloading"}
  /\ heap' = [heap EXCEPT !.context = Memory_free(@)]
  /\ phase' = "unloaded"
  /\ UNCHANGED <<hw, build, overlay, instruction, noOfLogicalCores, status, buildIndex, isVirtualized, eptp, vmx, pml4, pd,
                 splitBuffer, noOfUsedSplits, changedMappings, registers, vmcs, exits, bugCheck,
                 top, firstOut, ioStatus>>

\* DeviceCreate(deviceObject, irp)
DeviceCreate ==
  /\ Running
  /\ ioStatus' = STATUS_SUCCESS
  /\ UNCHANGED <<hw, build, overlay, instruction, noOfLogicalCores, phase, status, buildIndex, isVirtualized, eptp, vmx,
                 heap, pml4, pd, splitBuffer, noOfUsedSplits, changedMappings, registers, vmcs, exits,
                 bugCheck, top, firstOut>>

\* DeviceClose(deviceObject, irp)
DeviceClose ==
  /\ Running
  /\ ioStatus' = STATUS_SUCCESS
  /\ UNCHANGED <<hw, build, overlay, instruction, noOfLogicalCores, phase, status, buildIndex, isVirtualized, eptp, vmx,
                 heap, pml4, pd, splitBuffer, noOfUsedSplits, changedMappings, registers, vmcs, exits,
                 bugCheck, top, firstOut>>

\* a machine of one logical core
Init == InitFor(1)

Next ==
  \/ \E cur \in Cores : VMM_enable_EptSetup(cur)
  \/ VMM_enable_Virtualize
  \/ \E r \in ControlRequests :
       DeviceControl(r.ioControlCode, r.inputBufferLength, r.arguments)
  \/ \E cur \in Cores, a \in TouchedAddresses, q \in Qualifications :
       EptViolation(cur, a, q)

Spec == Init /\ [][Next]_vars

\* a machine of several logical cores, seen from the control device: the
\* requests of the caller, broadcast to every core
InitSmp == \E n \in 2 .. MaxLogicalCores : InitFor(n)

NextSmp ==
  \/ \E cur \in Cores : VMM_enable_EptSetup(cur)
  \/ VMM_enable_Virtualize
  \/ \E r \in ControlRequests :
       DeviceControl(r.ioControlCode, r.inputBufferLength, r.arguments)

SpecSmp == InitSmp /\ [][NextSmp]_vars

\* a machine of one logical core whose caller passes any of a few page
\* frames as guest page, read/write target and fetch target, and removes any
\* of them
AliasFrames == {AddressOf(1, i) : i \in 1 .. MaxAliasFrames}

AliasRequests ==
  {[ioControlCode |-> DRIVER_MAP, inputBufferLength |-> 3 * SIZEOF_PVOID,
    arguments |-> <<g, r, f>>] : g \in AliasFrames, r \in AliasFrames, f \in AliasFrames}
  \cup {[ioControlCode |-> DRIVER_UNMAP, inputBufferLength |-> SIZEOF_PVOID,
         arguments |-> <<x, 0, 0>>] : x \in AliasFrames}

NextAlias ==
  \/ \E cur \in Cores : VMM_enable_EptSetup(cur)
  \/ VMM_enable_Virtualize
  \/ \E r \in AliasRequests :
       DeviceControl(r.ioControlCode, r.inputBufferLength, r.arguments)

SpecAlias == Init /\ [][NextAlias]_vars

\* a machine of one logical core with any MTRR configuration, enabled
InitMtrr == InitWith(1, MtrrMachines)

NextMtrr ==
  \/ \E cur \in Cores : VMM_enable_EptSetup(cur)
  \/ VMM_enable_Virtualize

SpecMtrr == InitMtrr /\ [][NextMtrr]_vars

\* a machine of one logical core whose guest executes CPUID and VMCALL and
\* leaves to the hypervisor for every reason
NextExit ==
  \/ \E cur \in Cores : VMM_enable_EptSetup(cur)
  \/ VMM_enable_Virtualize
  \/ \E r \in ExitRequests :
       DeviceControl(r.ioControlCode, r.inputBufferLength, r.arguments)
  \/ \E cur \in Cores, a \in TouchedAddresses, q \in Qualifications :
       EptViolation(cur, a, q)
  \/ \E cur \in Cores, guest \in GuestStates, len \in CpuidLengths :
       \E rax \in CpuidFunctions, subleaf \in CpuidSubleaves :
         GuestCpuid(cur, guest, len, rax, subleaf)
  \/ \E cur \in Cores, guest \in GuestStates, len \in VmcallLengths :
       \E rax \in {STATUS_UNSUCCESSFUL}, in \in VmcallInputs :
         GuestVmcall(cur, guest, len, rax, in[1], in[2])
  \/ \E cur \in Cores, guest \in GuestStates, reason \in OtherExitReasons :
       GuestOtherExit(cur, guest, 1, reason)
  \/ \E cur \in Cores, guest \in GuestStates, f \in EptFaults :
       GuestEptFault(cur, guest, f[1], f[2])

\* any build of the driver
InitExit == InitBuilt(1, PlainMachines, {ReadingBuild, FoldingBuild}) /\ overlay = NoOverlay

SpecExit == InitExit /\ [][NextExit]_vars

\* machines of one and of several logical cores from DriverEntry to the end
\* of DriverUnload: enabling may fail at any step on any core, the caller of
\* the control device opens and closes it and sends a few requests
AvailableBlocks == 0 .. (Len(EptBlocks) - 1)

InitLife == \E n \in 1 .. MaxLogicalCores : InitFor(n)

NextLife ==
  \/ \E cur \in Cores : VMM_enable_EptSetup(cur)
  \/ \E available \in AvailableBlocks : VMM_enable_EptSetupNoMemory(available)
  \/ VMM_enable_Virtualize
  \/ \E outcome \in [Cores -> VirtualizeOutcomes] : VMM_enable_VirtualizeFails(outcome)
  \/ VMM_disable_Restore
  \/ VMM_disable_Destroy
  \/ DriverUnload
  \/ Context_destroy
  \/ DeviceCreate
  \/ DeviceClose
  \/ \E r \in ExitRequests :
       DeviceControl(r.ioControlCode, r.inputBufferLength, r.arguments)

SpecLife == InitLife /\ [][NextLife]_vars

\* a machine of several logical cores whose guests touch the installed page
\* on any core
NextFlip ==
  \/ \E cur \in Cores : VMM_enable_EptSetup(cur)
  \/ VMM_enable_Virtualize
  \/ \E r \in ExitRequests :
       DeviceControl(r.ioControlCode, r.inputBufferLength, r.arguments)
  \/ \E cur \in Cores, a \in TouchedAddresses, q \in Qualifications :
       EptViolation(cur, a, q)

SpecFlip == InitSmp /\ [][NextFlip]_vars

\* a machine of one logical core whose guest executes instructions that lie
\* in, read and write the caller's pages; the processor keeps executing the
\* instruction of the guest: it resumes it after every VM exit
NextGuest ==
  \/ \E cur \in Cores : VMM_enable_EptSetup(cur)
  \/ VMM_enable_Virtualize
  \/ \E r \in ExitRequests :
       DeviceControl(r.ioControlCode, r.inputBufferLength, r.arguments)
  \/ \E cur \in Cores, i \in GuestInstructions : GuestBegins(cur, i)
  \/ \E cur \in Cores : GuestTraps(cur)
  \/ \E cur \in Cores : GuestRetires(cur)

SpecGuest == Init /\ [][NextGuest]_vars /\ WF_vars(GuestTraps(0)) /\ SF_vars(GuestRetires(0))

\* machines of one logical core of every physical-address width, from
\* VMM_enable to the end of VMM_disable, whose guest installs and removes
\* pages below and above the PML4 entries the build fills
InitWide == InitWith(1, WideMachines)

NextWide ==
  \/ \E cur \in Cores : VMM_enable_EptSetup(cur)
  \/ VMM_enable_Virtualize
  \/ \E r \in ExitRequests :
       DeviceControl(r.ioControlCode, r.inputBufferLength, r.arguments)
  \/ \E cur \in Cores, guest \in GuestStates, len \in VmcallLengths :
       \E rcx \in {VMEXIT_VMCALL_MAP_PAGE, VMEXIT_VMCALL_UNMAP_PAGE}, pml4Entry \in Pml4Indices :
         GuestVmcallAbove(cur, guest, len, rcx, pml4Entry)
  \/ DriverUnload
  \/ VMM_disable_Restore
  \/ VMM_disable_Destroy

SpecWide == InitWide /\ [][NextWide]_vars

\* one call of fillFixedMtrr in overrideFirstPml4EntryWithFixedMtrrs, the
\* calls in their order
FillFixedMtrr ==
  /\ overlay.filled < Len(FixedRangeMsrs)
  /\ LET call == FixedRangeMsrs[overlay.filled + 1]
     IN \E o \in {fillFixedMtrr(overlay, call.msrIndex, call.sizeInKBytes)} :
          overlay' = [o EXCEPT !.filled = @ + 1]
  /\ UNCHANGED <<hw, build, noOfLogicalCores, phase, status, buildIndex, isVirtualized, eptp,
                 vmx, heap, pml4, pd, splitBuffer, noOfUsedSplits, changedMappings, registers,
                 vmcs, exits, bugCheck, top, firstOut, ioStatus, instruction>>

\* overrideFirstPml4EntryWithFixedMtrrs after its splitPage, on a machine
\* with fixed-range MTRRs, call by call
InitFixed ==
  /\ InitBuilt(1, {h \in PlainMachines : h.fixedMtrr}, {ReadingBuild})
  /\ overlay \in SplitFirstTables
NextFixed == FillFixedMtrr
SpecFixed == InitFixed /\ [][NextFixed]_vars

(* ----------------------------- properties ------------------------------- *)
\* the valid records of core c and the addresses that key them
ValidRecords(c) == {i \in MappingIndices : changedMappings[c][i].valid}
IsGuestKey(c, x) == \E i \in ValidRecords(c) : changedMappings[c][i].guestAddress = x
RecordOf(c, x) ==
  changedMappings[c][CHOOSE i \in ValidRecords(c) : changedMappings[c][i].guestAddress = x]

\* the modelled window of guest-physical pages and its translation on core c
Window == {AddressOf(d, t) : d \in PdIndices, t \in PtIndices}
Translation(c) == [a \in Window |-> EptLeaf(c, a)]

\* the memory type EPT_setupDefaltStructures gives the 4 KiB page at address a
FixedRangeOverlay == hw.mtrr /\ hw.mtrrEnable /\ hw.fixedMtrr
BuildMemoryType(a) ==
  IF FixedRangeOverlay /\ PdEntry(a) = 0 /\ PtEntry(a) < FIXED_MTRR_LEAVES
  THEN FixedMtrrMemoryType
  ELSE IF hw.mtrr /\ hw.mtrrEnable
  THEN StoredMemoryType(searchVariableMtrrs(MaxVariableMtrrs, hw.variableMtrrs,
                                            hw.defaultMemoryType, AddressOf(PdEntry(a), 0)))
  ELSE IA32_MTRR_DISABLED_DEFAULT_TYPE
IdentityLeaf(a) ==
  [readAccess |-> TRUE, writeAccess |-> TRUE, fetchAccess |-> TRUE,
   memoryType |-> BuildMemoryType(a), pageFrameNumber |-> PageFrameNumber4KB(a)]

\* what a core holds for the mapping engine: table, counter, EPT entries
CoreState(c) ==
  [table |-> changedMappings[c], counter |-> noOfUsedSplits[c], pd |-> pd[c],
   pt |-> splitBuffer[c], translation |-> Translation(c)]

\* the three configurations of the leaf of a mapped page
Dormant(leaf, M) ==
  /\ leaf.pageFrameNumber = PageFrameNumber4KB(M.guestAddress)
  /\ ~leaf.readAccess /\ ~leaf.writeAccess /\ ~leaf.fetchAccess
RwActive(leaf, M) ==
  /\ leaf.pageFrameNumber = PageFrameNumber4KB(M.hostRwAddress)
  /\ leaf.readAccess /\ leaf.writeAccess /\ ~leaf.fetchAccess
FetchActive(leaf, M) ==
  /\ leaf.pageFrameNumber = PageFrameNumber4KB(M.hostFetchAddress)
  /\ ~leaf.readAccess /\ ~leaf.writeAccess /\ leaf.fetchAccess

\* the last VM exit of core c was the VMCALL rcx and ended with status rax
LastCall(c, rcx, rax) == registers[c].RCX = rcx /\ registers[c].RAX = rax

\* C1: on every core and in every reachable state, no valid record has a
\* guest key, read/write target or fetch target equal to the guest key of
\* another valid record.
C1_UniqueGuestKeys ==
  \A c \in Cores : \A i \in ValidRecords(c) : \A j \in ValidRecords(c) \ {i} :
    LET M == changedMappings[c][i]
        N == changedMappings[c][j]
    IN /\ N.guestAddress # M.guestAddress
       /\ N.hostRwAddress # M.guestAddress
       /\ N.hostFetchAddress # M.guestAddress

\* a core holds several records and has just refused an aligned install whose
\* guest address is the read/write target of one of them
C1_Witness ==
  /\ Cardinality(ValidRecords(0)) >= 2
  /\ LastCall(0, VMEXIT_VMCALL_MAP_PAGE, STATUS_UNSUCCESSFUL)
  /\ Offset(registers[0].RDX) = 0 /\ Offset(registers[0].R8) = 0
  /\ Offset(registers[0].R9) = 0
  /\ \E i \in ValidRecords(0) : changedMappings[0][i].hostRwAddress = registers[0].RDX

\* C2: for every valid record (g, rw, f) of a core the 4 KiB leaf of g is in
\* exactly one of the configurations dormant, R/W active, fetch active; it
\* never permits read or write while pointing at f, nor fetch while pointing
\* at rw, when rw # f.
C2_LeafConfigurations ==
  \A c \in Cores : \A i \in ValidRecords(c) :
    LET M == changedMappings[c][i]
        leaf == EptLeaf(c, M.guestAddress)
    IN /\ Cardinality({k \in 1 .. 3 :
                         \/ k = 1 /\ Dormant(leaf, M)
                         \/ k = 2 /\ RwActive(leaf, M)
                         \/ k = 3 /\ FetchActive(leaf, M)}) = 1
       /\ M.hostRwAddress # M.hostFetchAddress =>
            /\ ~(/\ leaf.readAccess \/ leaf.writeAccess
                 /\ leaf.pageFrameNumber = PageFrameNumber4KB(M.hostFetchAddress))
            /\ ~(/\ leaf.fetchAccess
                 /\ leaf.pageFrameNumber = PageFrameNumber4KB(M.hostRwAddress))

\* a core holds a record whose leaf is R/W active and a record whose leaf is
\* dormant
C2_Witness ==
  /\ \E i \in ValidRecords(0) :
       RwActive(EptLeaf(0, changedMappings[0][i].guestAddress), changedMappings[0][i])
  /\ \E i \in ValidRecords(0) :
       Dormant(EptLeaf(0, changedMappings[0][i].guestAddress), changedMappings[0][i])

\* the leaf of the page of address a after the handler of a violation with
\* qualification q has run on core cur
FlipStep(cur, a, q) ==
  LET M == RecordOf(cur, PageBase(a))
      leaf == EptLeaf(cur, PageBase(a))'
  IN /\ bugCheck' = BSOD_NONE
     /\ IF q.dataRead \/ q.dataWrite
        THEN /\ leaf.pageFrameNumber = PageFrameNumber4KB(M.hostRwAddress)
             /\ leaf.readAccess /\ leaf.writeAccess /\ ~leaf.fetchAccess
        ELSE /\ q.instructionFetch
             /\ leaf.pageFrameNumber = PageFrameNumber4KB(M.hostFetchAddress)
             /\ ~leaf.readAccess /\ ~leaf.writeAccess /\ leaf.fetchAccess
     /\ (leaf.readAccess /\ leaf.writeAccess) # leaf.fetchAccess
     /\ leaf.readAccess = leaf.writeAccess

\* C3: an EPT violation on a page with a valid record leaves the leaf at the
\* read/write target with read = write = 1, fetch = 0 when the qualification
\* has data-read or data-write set, and otherwise, instruction-fetch being
\* set, at the fetch target with read = write = 0, fetch = 1; after the flip
\* exactly one of read/write and fetch is permitted.
C3_FlipByAccessKind ==
  [][\A cur \in Cores, a \in TouchedAddresses, q \in Qualifications :
       (EptViolation(cur, a, q) /\ IsGuestKey(cur, PageBase(a)))
         => FlipStep(cur, a, q)]_vars

\* the last VM exit of the core was an EPT violation and the leaf of a mapped
\* page is fetch active
C3_Witness ==
  /\ exits[0].vmcs.exitReason = VMEXIT_EPT_VIOLATION
  /\ \E i \in ValidRecords(0) :
       FetchActive(EptLeaf(0, changedMappings[0][i].guestAddress), changedMappings[0][i])

\* every leaf of core c other than that of page g is as it was
OtherLeavesKept(c, g) ==
  \A a \in Window \ {g} : EptLeaf(c, a)' = EptLeaf(c, a)

\* a successful install of g on core c starts from the identity leaf of g and
\* touches no other leaf and no memory type
InstallStep(c, g) ==
  registers'[c].RAX = STATUS_SUCCESS =>
    /\ EptLeaf(c, g) = IdentityLeaf(g)
    /\ EptLeaf(c, g)'.memoryType = EptLeaf(c, g).memoryType
    /\ OtherLeavesKept(c, g)

\* a flip of the leaf of g touches no other leaf and no memory type
FlipKeeps(c, g) ==
  /\ EptLeaf(c, g)'.memoryType = EptLeaf(c, g).memoryType
  /\ OtherLeavesKept(c, g)
  /\ changedMappings'[c] = changedMappings[c]

\* remove of a mapped g on core c succeeds, invalidates the record and puts
\* the identity leaf back, memory type kept, no other leaf touched
RemoveStep(c, g) ==
  /\ registers'[c].RAX = STATUS_SUCCESS
  /\ ~IsGuestKey(c, g)'
  /\ \A i \in ValidRecords(c) :
       IF changedMappings[c][i].guestAddress = g
       THEN changedMappings'[c][i] = ZeroMapping
       ELSE changedMappings'[c][i] = changedMappings[c][i]
  /\ EptLeaf(c, g)' = IdentityLeaf(g)
  /\ EptLeaf(c, g)'.memoryType = EptLeaf(c, g).memoryType
  /\ OtherLeavesKept(c, g)
  /\ \A a \in Window : ~IsGuestKey(c, a)' => EptLeaf(c, a)' = IdentityLeaf(a)

\* C4: round trip. A successful install of aligned g, r, f finds the identity
\* leaf at g; the flips that follow change the leaf of g only and keep its
\* memory type; a remove of g then succeeds, marks the record invalid and
\* restores the leaf of g to identity (frame = g, read = write = fetch = 1),
\* memory type unchanged, so that the translation is the pre-install one
\* (the enclosing 2 MiB region may stay split).
C4_RoundTrip ==
  [][/\ \A in \in MapInputs : PAGE_SWAPPER_map(in[1], in[2], in[3]) =>
          \A c \in Cores : InstallStep(c, in[1])
     /\ \A cur \in Cores, a \in TouchedAddresses, q \in Qualifications :
          EptViolation(cur, a, q) /\ IsGuestKey(cur, PageBase(a)) =>
             FlipKeeps(cur, PageBase(a))
     /\ \A x \in UnmapInputs : PAGE_SWAPPER_unmap(x) =>
          \A c \in Cores : IsGuestKey(c, x) => RemoveStep(c, x)]_vars

\* a remove has just succeeded on a page that guest code touches: its record
\* is gone, its leaf is the identity leaf of a region that stays split
C4_Witness ==
  /\ LastCall(0, VMEXIT_VMCALL_UNMAP_PAGE, STATUS_SUCCESS)
  /\ \E a \in TouchedAddresses : registers[0].RDX = PageBase(a)
  /\ ~IsGuestKey(0, registers[0].RDX)
  /\ ~pd[0][PdEntry(registers[0].RDX)].isLargePage
  /\ EptLeaf(0, registers[0].RDX) = IdentityLeaf(registers[0].RDX)

\* C5: remove(x) for an x that is not the guest key of a valid record of the
\* core (also an x that is only a read/write or fetch target, or unaligned)
\* returns failure and leaves the mapping table, the split counter and every
\* EPT entry of that core unchanged.
C5_FailedRemoveKeepsState ==
  [][\A x \in UnmapInputs : PAGE_SWAPPER_unmap(x) =>
       \A c \in Cores : ~IsGuestKey(c, x) =>
          /\ registers'[c].RAX = STATUS_UNSUCCESSFUL
          /\ CoreState(c)' = CoreState(c)]_vars

\* a remove of an address that is only the read/write target of a valid
\* record has just failed
C5_Witness ==
  /\ LastCall(0, VMEXIT_VMCALL_UNMAP_PAGE, STATUS_UNSUCCESSFUL)
  /\ ~IsGuestKey(0, registers[0].RDX)
  /\ \E i \in ValidRecords(0) : changedMappings[0][i].hostRwAddress = registers[0].RDX

\* the request (g, r, f) is aligned, resp. names an address that a valid
\* record of core c already uses in a way the install refuses
Aligned(g, r, f) == Offset(g) = 0 /\ Offset(r) = 0 /\ Offset(f) = 0
Aliases(c, g, r, f) ==
  \E i \in ValidRecords(c) :
    LET M == changedMappings[c][i]
    IN g \in {M.guestAddress, M.hostRwAddress, M.hostFetchAddress}
       \/ M.guestAddress \in {r, f}

\* C6: every failing install on a core (unaligned address, alias collision,
\* mapping table full, split arena full) leaves the core's mapping table,
\* split counter and EPT entries as they were; a table-full install takes
\* no split slot.
C6_FailedInstallKeepsState ==
  [][\A in \in MapInputs : PAGE_SWAPPER_map(in[1], in[2], in[3]) =>
       \A c \in Cores :
          /\ registers'[c].RAX # STATUS_SUCCESS => CoreState(c)' = CoreState(c)
          /\ ValidRecords(c) = MappingIndices => noOfUsedSplits'[c] = noOfUsedSplits[c]]_vars

\* an aligned install that aliases nothing has just failed with a free record
\* in the table: the split arena is full and the page's region is not split
C6_Witness ==
  /\ LastCall(0, VMEXIT_VMCALL_MAP_PAGE, STATUS_UNSUCCESSFUL)
  /\ Aligned(registers[0].RDX, registers[0].R8, registers[0].R9)
  /\ ~Aliases(0, registers[0].RDX, registers[0].R8, registers[0].R9)
  /\ ValidRecords(0) # MappingIndices
  /\ noOfUsedSplits[0] = CONTEXT_EPT_NO_SPLITS
  /\ pd[0][PdEntry(registers[0].RDX)].isLargePage

\* no core changed its mapping table or its EPT in this step
NoCoreChanged ==
  \A c \in Cores : /\ changedMappings'[c] = changedMappings[c]
                   /\ Translation(c)' = Translation(c)
\* a broadcast is all-or-nothing: every core returns the same status, and a
\* failure on some core means no core changed
Atomic ==
  /\ \A c, d \in Cores : NT_SUCCESS(registers'[c].RAX) = NT_SUCCESS(registers'[d].RAX)
  /\ (\E c \in Cores : ~NT_SUCCESS(registers'[c].RAX)) => NoCoreChanged

\* C7: cross-core all-or-nothing. For a broadcast install or remove issued
\* through PAGE_SWAPPER_map / PAGE_SWAPPER_unmap after enable, a failure
\* result means that no core changed its mapping table or EPT; the same
\* request never succeeds on one core and fails on another.
C7_AllOrNothing ==
  [][/\ \A in \in MapInputs : PAGE_SWAPPER_map(in[1], in[2], in[3]) => Atomic
     /\ \A x \in UnmapInputs : PAGE_SWAPPER_unmap(x) => Atomic]_vars

\* the frames of the request are pairwise distinct, aligned and used by no
\* valid record of core c
FreshFrames(c, g, r, f) ==
  /\ Aligned(g, r, f)
  /\ g # r /\ g # f /\ r # f
  /\ \A i \in ValidRecords(c) :
       {g, r, f} \cap {changedMappings[c][i].guestAddress,
                       changedMappings[c][i].hostRwAddress,
                       changedMappings[c][i].hostFetchAddress} = {}

\* C8: capacity. From a freshly enabled core on, an install of pairwise
\* distinct, aligned, non-aliasing frames succeeds while fewer than 32 records
\* are valid, wherever the guest frame lies, and fails when 32 are valid: the
\* first 32 installs succeed, the 33rd fails, and after a remove an install
\* for a fresh frame succeeds.
C8_Capacity ==
  [][\A in \in MapInputs :
       (PAGE_SWAPPER_map(in[1], in[2], in[3]) /\ FreshFrames(0, in[1], in[2], in[3])) =>
          (registers'[0].RAX = STATUS_SUCCESS
             <=> Cardinality(ValidRecords(0)) < CONTEXT_EPT_MAX_MAPPINGS)]_vars

\* C9: while all 32 records of a core's mapping table are valid, every install
\* on that core fails and leaves the table as it is; the number of valid
\* records never exceeds 32.
C9_TableFull ==
  [][\A in \in MapInputs : PAGE_SWAPPER_map(in[1], in[2], in[3]) =>
       \A c \in Cores :
          /\ Cardinality(ValidRecords(c)) = CONTEXT_EPT_MAX_MAPPINGS =>
                /\ registers'[c].RAX = STATUS_UNSUCCESSFUL
                /\ changedMappings'[c] = changedMappings[c]
          /\ Cardinality(ValidRecords(c))' <= CONTEXT_EPT_MAX_MAPPINGS]_vars

\* with all 32 records valid, an aligned install of frames no record uses has
\* just failed
C9_Witness ==
  /\ Cardinality(ValidRecords(0)) = CONTEXT_EPT_MAX_MAPPINGS
  /\ LastCall(0, VMEXIT_VMCALL_MAP_PAGE, STATUS_UNSUCCESSFUL)
  /\ FreshFrames(0, registers[0].RDX, registers[0].R8, registers[0].R9)

\* C10: install(g, r, f) fails whenever one of g, r, f has non-zero low 12
\* bits, whatever the other two and the mapping table are, and leaves the
\* state of the core unchanged.
C10_UnalignedInstallFails ==
  [][\A in \in MapInputs :
       (PAGE_SWAPPER_map(in[1], in[2], in[3]) /\ ~Aligned(in[1], in[2], in[3])) =>
          \A c \in Cores : /\ registers'[c].RAX = STATUS_UNSUCCESSFUL
                           /\ CoreState(c)' = CoreState(c)]_vars

\* an install whose fetch target alone is unaligned has just failed on a core
\* that holds valid records
C10_Witness ==
  /\ LastCall(0, VMEXIT_VMCALL_MAP_PAGE, STATUS_UNSUCCESSFUL)
  /\ Offset(registers[0].RDX) = 0 /\ Offset(registers[0].R8) = 0
  /\ Offset(registers[0].R9) # 0
  /\ ValidRecords(0) # {}

\* the DRIVER_MAP requests with a full input buffer in which one of the three
\* addresses is not page aligned
UnalignedMapRequests ==
  {r \in ControlRequests : /\ r.ioControlCode = DRIVER_MAP
                           /\ r.inputBufferLength >= 3 * SIZEOF_PVOID
                           /\ ~Aligned(r.arguments[1], r.arguments[2], r.arguments[3])}

\* C11 as stated: an install request with an unaligned address issued
\* through the control device completes with STATUS_INVALID_PARAMETER.
C11_UnalignedMapInvalidParameter ==
  [][\A r \in UnalignedMapRequests :
       DeviceControl(r.ioControlCode, r.inputBufferLength, r.arguments) =>
          ioStatus' = STATUS_INVALID_PARAMETER]_vars

\* C11, amended: an install request with an unaligned address issued
\* through the control device completes with the failure status of the
\* hypercall, STATUS_UNSUCCESSFUL, and not with a success status.
C11_UnalignedMapUnsuccessful ==
  [][\A r \in UnalignedMapRequests :
       DeviceControl(r.ioControlCode, r.inputBufferLength, r.arguments) =>
          /\ ioStatus' = STATUS_UNSUCCESSFUL
          /\ ~NT_SUCCESS(ioStatus')]_vars

\* a DRIVER_MAP request whose guest address is unaligned has just been
\* completed with STATUS_UNSUCCESSFUL
C11_Witness ==
  /\ ioStatus = STATUS_UNSUCCESSFUL
  /\ LastCall(0, VMEXIT_VMCALL_MAP_PAGE, STATUS_UNSUCCESSFUL)
  /\ Offset(registers[0].RDX) # 0

\* a valid record of core c uses frame x as guest key or as a target
UsesFrame(c, x) ==
  \E i \in ValidRecords(c) :
    x \in {changedMappings[c][i].guestAddress, changedMappings[c][i].hostRwAddress,
           changedMappings[c][i].hostFetchAddress}

\* a valid record of core c has r or f as one of its targets
SharesTarget(c, r, f) ==
  \E i \in ValidRecords(c) :
    {r, f} \cap {changedMappings[c][i].hostRwAddress,
                 changedMappings[c][i].hostFetchAddress} # {}

\* core c has a free record and can give the region of g a page table
CanStore(c, g) ==
  /\ Cardinality(ValidRecords(c)) < CONTEXT_EPT_MAX_MAPPINGS
  /\ pd[c][PdEntry(g)].isLargePage => noOfUsedSplits[c] < CONTEXT_EPT_NO_SPLITS

\* the install request (g, r, f) with a full input buffer is served: the
\* hypercall leaves its arguments in the registers of the core
MapRequest(g, r, f) ==
  /\ registers'[0].RCX = VMEXIT_VMCALL_MAP_PAGE
  /\ <<registers'[0].RDX, registers'[0].R8, registers'[0].R9>> = <<g, r, f>>
  /\ DeviceControl(DRIVER_MAP, 3 * SIZEOF_PVOID, <<g, r, f>>)

\* C12 as stated: install(g, r, f) is rejected whenever a valid mapping of
\* the core uses any of g, r, f as guest key, rw-target or fetch-target, in
\* particular when r or f is a target of an existing valid mapping.
C12_AnyUseRejected ==
  [][\A g \in AliasFrames, r \in AliasFrames, f \in AliasFrames :
       (MapRequest(g, r, f) /\ \E x \in {g, r, f} : UsesFrame(0, x))
          => registers'[0].RAX = STATUS_UNSUCCESSFUL]_vars

\* C12, amended: install(g, r, f) is rejected whenever a valid mapping of
\* the core uses g as guest key, rw-target or fetch-target, or uses r or f
\* as guest key; r or f being a target of an existing valid mapping is no
\* cause of rejection: such an install succeeds and stores its record when
\* nothing else (alignment, the collisions above, capacity) stops it.
C12_GuestUseOrKeyRejected ==
  [][\A g \in AliasFrames, r \in AliasFrames, f \in AliasFrames :
       MapRequest(g, r, f) =>
         \A c \in Cores :
           /\ Aliases(c, g, r, f) => registers'[c].RAX = STATUS_UNSUCCESSFUL
           /\ (/\ SharesTarget(c, r, f)
               /\ ~Aliases(c, g, r, f) /\ Aligned(g, r, f) /\ CanStore(c, g)) =>
                 /\ registers'[c].RAX = STATUS_SUCCESS
                 /\ IsGuestKey(c, g)'
                 /\ RecordOf(c, g)'.hostRwAddress = r
                 /\ RecordOf(c, g)'.hostFetchAddress = f]_vars

\* two valid records share their rw-target, the second one stored by the
\* last call
C12_Witness ==
  /\ LastCall(0, VMEXIT_VMCALL_MAP_PAGE, STATUS_SUCCESS)
  /\ \E i \in ValidRecords(0), j \in ValidRecords(0) :
       /\ i # j
       /\ changedMappings[0][j].guestAddress = registers[0].RDX
       /\ changedMappings[0][i].hostRwAddress = changedMappings[0][j].hostRwAddress

\* C13: install(g, r, f) fails when r or f is the guest key of a valid
\* record, and fails when g is the guest key, rw-target or fetch-target of a
\* valid record; the mapping table stays as it was. After install(A, B, A),
\* install(B, C, C) fails.
C13_CollidingInstallFails ==
  [][\A g \in AliasFrames, r \in AliasFrames, f \in AliasFrames :
       MapRequest(g, r, f) =>
         \A c \in Cores :
           /\ (IsGuestKey(c, r) \/ IsGuestKey(c, f)) =>
                 /\ registers'[c].RAX = STATUS_UNSUCCESSFUL
                 /\ changedMappings'[c] = changedMappings[c]
           /\ UsesFrame(c, g) =>
                 /\ registers'[c].RAX = STATUS_UNSUCCESSFUL
                 /\ changedMappings'[c] = changedMappings[c]
           /\ (UsesFrame(c, g) \/ IsGuestKey(c, r) \/ IsGuestKey(c, f)) =>
                 ioStatus' = STATUS_UNSUCCESSFUL]_vars

\* the only valid record is (A, B, A) and install(B, C, C) has just failed
C13_Witness ==
  /\ LastCall(0, VMEXIT_VMCALL_MAP_PAGE, STATUS_UNSUCCESSFUL)
  /\ registers[0].RDX = AddressOf(1, 2)
  /\ registers[0].R8 = AddressOf(1, 3) /\ registers[0].R9 = AddressOf(1, 3)
  /\ Cardinality(ValidRecords(0)) = 1
  /\ IsGuestKey(0, AddressOf(1, 1))
  /\ RecordOf(0, AddressOf(1, 1)).hostRwAddress = AddressOf(1, 2)
  /\ RecordOf(0, AddressOf(1, 1)).hostFetchAddress = AddressOf(1, 1)

\* C14 as stated: on every core the guest key of a valid record is not the
\* rw-target or fetch-target of any valid record, its own record included.
C14_KeyIsNoTarget ==
  \A c \in Cores : \A i \in ValidRecords(c), j \in ValidRecords(c) :
    changedMappings[c][i].guestAddress
      \notin {changedMappings[c][j].hostRwAddress, changedMappings[c][j].hostFetchAddress}

\* C14, amended: on every core the guest key of a valid record is not the
\* rw-target or fetch-target of any other valid record; the record it keys
\* may name it as its own target.
C14_KeyIsNoForeignTarget ==
  \A c \in Cores : \A i \in ValidRecords(c) : \A j \in ValidRecords(c) \ {i} :
    changedMappings[c][i].guestAddress
      \notin {changedMappings[c][j].hostRwAddress, changedMappings[c][j].hostFetchAddress}

\* a core holds a valid record whose fetch target is its own guest key, next
\* to another valid record
C14_Witness ==
  \E i \in ValidRecords(0), j \in ValidRecords(0) :
    /\ i # j
    /\ changedMappings[0][i].hostFetchAddress = changedMappings[0][i].guestAddress
    /\ changedMappings[0][i].hostRwAddress # changedMappings[0][i].guestAddress

\* the install (g, r, f) passes the alignment test, the alias test and the
\* slot search on core c and finds the region of g mapped by a 2 MiB leaf,
\* so that EPT_changeMapping calls splitPage
NeedsSplit(c, g, r, f) ==
  /\ Aligned(g, r, f)
  /\ ~Aliases(c, g, r, f)
  /\ Cardinality(ValidRecords(c)) < CONTEXT_EPT_MAX_MAPPINGS
  /\ pd[c][PdEntry(g)].isLargePage

\* C15: splitting a 2 MiB leaf fails exactly when the split-arena counter of
\* the executing core equals 32; on failure the counter, the arena and the PD
\* entry stay as they were and the install that needed the split fails; on
\* success the split takes the next slot.
C15_SplitFailsExactlyWhenFull ==
  [][\A in \in MapInputs :
       PAGE_SWAPPER_map(in[1], in[2], in[3]) =>
         \A c \in Cores :
           NeedsSplit(c, in[1], in[2], in[3]) =>
             IF noOfUsedSplits[c] = CONTEXT_EPT_NO_SPLITS
             THEN /\ registers'[c].RAX = STATUS_UNSUCCESSFUL
                  /\ noOfUsedSplits'[c] = noOfUsedSplits[c]
                  /\ splitBuffer'[c] = splitBuffer[c]
                  /\ pd'[c] = pd[c]
                  /\ changedMappings'[c] = changedMappings[c]
             ELSE /\ registers'[c].RAX = STATUS_SUCCESS
                  /\ noOfUsedSplits'[c] = noOfUsedSplits[c] + 1
                  /\ ~pd'[c][PdEntry(in[1])].isLargePage
                  /\ pd'[c][PdEntry(in[1])].pageFrameNumber =
                       Memory_getPhysicalPfn(c, noOfUsedSplits[c])]_vars

\* an install into a region that is still a 2 MiB leaf has just failed on a
\* core that has free records and 32 split slots in use
C15_Witness ==
  /\ LastCall(0, VMEXIT_VMCALL_MAP_PAGE, STATUS_UNSUCCESSFUL)
  /\ noOfUsedSplits[0] = CONTEXT_EPT_NO_SPLITS
  /\ NeedsSplit(0, registers[0].RDX, registers[0].R8, registers[0].R9)

\* the step is an install that succeeds on core c and whose guest page lies
\* in a region that is still mapped by a 2 MiB leaf
SplittingInstall(c) ==
  \E in \in MapInputs :
    /\ pd[c][PdEntry(in[1])].isLargePage
    /\ PAGE_SWAPPER_map(in[1], in[2], in[3])
    /\ registers'[c].RAX = STATUS_SUCCESS

\* C16: once the machine runs, under installs, removes and EPT-violation
\* flips the split-arena counter of a core never decreases and never
\* exceeds 32; a step raises it by exactly 1 when it is an install carried
\* out into a not-yet-split 2 MiB region and by 0 otherwise (a remove
\* reclaims no slot).
C16_CounterMonotone ==
  [][phase = "running" =>
       \A c \in Cores :
         /\ noOfUsedSplits'[c] <= CONTEXT_EPT_NO_SPLITS
         /\ noOfUsedSplits'[c] >= noOfUsedSplits[c]
         /\ noOfUsedSplits'[c] =
              noOfUsedSplits[c] + (IF SplittingInstall(c) THEN 1 ELSE 0)]_vars

\* a remove has just succeeded on a core whose arena is full and whose
\* latest page is in a region of its own
C16_Witness ==
  /\ LastCall(0, VMEXIT_VMCALL_UNMAP_PAGE, STATUS_SUCCESS)
  /\ noOfUsedSplits[0] = CONTEXT_EPT_NO_SPLITS
  /\ ~pd[0][PdEntry(registers[0].RDX)].isLargePage
  /\ ~UsesFrame(0, registers[0].RDX)

\* the regions of the EPT of core c that a split has given a page table
SplitRegions(c) ==
  {d \in PdIndices : pd[c][d].readAccess /\ ~pd[c][d].isLargePage}

\* C17: per-core ownership of paging state. Every page table produced by a
\* split and reachable from the EPT of a built core c lies in the split
\* arena of core c and is counted by the counter of core c, the fixed-range
\* MTRR split made while VMM_enable builds the EPT of each core included.
C17_PerCoreOwnership ==
  \A c \in Cores :
    c < buildIndex =>
      /\ \A d \in SplitRegions(c) : Memory_getVirtualCore(pd[c][d].pageFrameNumber) = c
      /\ Cardinality(SplitRegions(c)) = noOfUsedSplits[c]

\* the split slots in use on cores 0 .. (n - 1)
RECURSIVE UsedSplits(_)
UsedSplits(n) == IF n = 0 THEN 0 ELSE noOfUsedSplits[n - 1] + UsedSplits(n - 1)

\* a slot of core c is consumed only by an install that forces a split
SlotsOnlyByInstall ==
  \A c \in Cores :
    (phase = "running" /\ noOfUsedSplits'[c] # noOfUsedSplits[c]) => SplittingInstall(c)

\* C18 as stated: right after a successful enable no core's EPT has a
\* 4 KiB leaf and every split-arena counter is 0; slots are only consumed
\* by an install that forces a split.
C18_NoLeafAfterEnable ==
  [][/\ VMM_enable_Virtualize =>
          \A c \in Cores : SplitRegions(c)' = {} /\ noOfUsedSplits'[c] = 0
     /\ SlotsOnlyByInstall]_vars

\* C18, amended: right after a successful enable the only 4 KiB leaves of a
\* core's EPT are those of the first 2 MiB region, split by the fixed-range
\* MTRR overlay exactly when the fixed-range MTRRs are supported and
\* enabled; without the overlay every counter is 0, with it the build has
\* consumed one slot per core; after enable, slots are only consumed by an
\* install that forces a split.
C18_OnlyFixedRangeLeavesAfterEnable ==
  [][/\ VMM_enable_Virtualize =>
          /\ \A c \in Cores :
               /\ SplitRegions(c)' = (IF FixedRangeOverlay THEN {0} ELSE {})
               /\ ~FixedRangeOverlay => noOfUsedSplits'[c] = 0
          /\ UsedSplits(noOfLogicalCores)' = (IF FixedRangeOverlay THEN noOfLogicalCores ELSE 0)
     /\ SlotsOnlyByInstall]_vars

\* enable has just succeeded on a machine with the fixed-range MTRRs
\* enabled: no request has been served and region 0 of every core is split
C18_Witness ==
  /\ phase = "running"
  /\ FixedRangeOverlay
  /\ \A c \in Cores : registers[c] = ZeroRegisters /\ SplitRegions(c) = {0}
  /\ ioStatus = IRP_NONE
  /\ UsedSplits(noOfLogicalCores) = noOfLogicalCores

\* the types of the valid variable MTRRs of the machine whose range
\* [base, base + length) holds address a
MtrrHits(a) ==
  {hw.variableMtrrs[i].memoryType :
     i \in {j \in VariableMtrrIndices :
              /\ hw.variableMtrrs[j].valid
              /\ a >= hw.variableMtrrs[j].baseAddress
              /\ a - hw.variableMtrrs[j].baseAddress < hw.variableMtrrs[j].length}}
DefinedMemoryTypes ==
  {IA32_MTRR_MEMORY_TYPE_UC, IA32_MTRR_MEMORY_TYPE_WC, IA32_MTRR_MEMORY_TYPE_WT,
   IA32_MTRR_MEMORY_TYPE_WP, IA32_MTRR_MEMORY_TYPE_WB}
\* the addresses resolved: the first two pages of every 2 MiB region
ResolvedAddresses == {AddressOf(d, t) : d \in PdIndices, t \in {0, 1}}
\* the MTRRs of the machine, in this and in the opposite order
Resolve(a) ==
  searchVariableMtrrs(MaxVariableMtrrs, hw.variableMtrrs, hw.defaultMemoryType, a)
ResolveReversed(a) ==
  searchVariableMtrrs(MaxVariableMtrrs,
                      [i \in VariableMtrrIndices |-> hw.variableMtrrs[MaxVariableMtrrs - 1 - i]],
                      hw.defaultMemoryType, a)
\* the build of an EPT has called searchVariableMtrrs with the MTRRs of the
\* machine
ResolverApplied == buildIndex > 0 /\ hw.mtrr /\ hw.mtrrEnable
\* the resolution rules for the types T that hit address a
ResolutionRules(a, T) ==
  /\ Cardinality(T) = 1 => Resolve(a) \in T
  /\ IA32_MTRR_MEMORY_TYPE_UC \in T => Resolve(a) = IA32_MTRR_MEMORY_TYPE_UC
  /\ T = {IA32_MTRR_MEMORY_TYPE_WT, IA32_MTRR_MEMORY_TYPE_WB} =>
       Resolve(a) = IA32_MTRR_MEMORY_TYPE_WT
  /\ T = {} => Resolve(a) = hw.defaultMemoryType
  /\ Resolve(a) = ResolveReversed(a)

\* C19 as stated: for every set of valid variable MTRRs and every address,
\* searchVariableMtrrs returns the single covering type, UC when UC is among
\* the covering types whatever the others, WT for exactly {WT, WB}, the
\* default type when no MTRR covers the address, and depends on nothing but
\* the MTRR set, the default type and the address.
C19_ResolutionAnyTypes ==
  ResolverApplied => \A a \in ResolvedAddresses : ResolutionRules(a, MtrrHits(a))

\* C19, amended: the rules hold when every covering type is one of UC, WC,
\* WT, WP, WB; when a covering valid MTRR has another type the result is the
\* error value, whatever the others; the result depends on nothing but the
\* MTRR set, the default type and the address.
C19_ResolutionDefinedTypes ==
  ResolverApplied =>
    \A a \in ResolvedAddresses :
      IF MtrrHits(a) \subseteq DefinedMemoryTypes
      THEN ResolutionRules(a, MtrrHits(a))
      ELSE /\ Resolve(a) = IA32_MTRR_MEMORY_TYPE_ERR
           /\ Resolve(a) = ResolveReversed(a)

\* the EPT of a machine has been built whose second 2 MiB region is covered
\* by a write-through and a write-back MTRR and whose first region is covered
\* by one of them only: the leaf of the second region is write-through
C19_Witness ==
  /\ buildIndex = 1
  /\ hw.mtrr /\ hw.mtrrEnable
  /\ MtrrHits(AddressOf(1, 0)) = {IA32_MTRR_MEMORY_TYPE_WT, IA32_MTRR_MEMORY_TYPE_WB}
  /\ Cardinality(MtrrHits(0)) = 1
  /\ pd[0][1].memoryType = IA32_MTRR_MEMORY_TYPE_WT
  /\ pd[0][0].memoryType \in MtrrHits(0)

\* the types that hit address a form a combination the resolver refuses: a
\* type that is none of the five, or several types without UC other than
\* {WT, WB}
InvalidCombination(a) ==
  \/ ~(MtrrHits(a) \subseteq DefinedMemoryTypes)
  \/ /\ Cardinality(MtrrHits(a)) > 1
     /\ IA32_MTRR_MEMORY_TYPE_UC \notin MtrrHits(a)
     /\ MtrrHits(a) # {IA32_MTRR_MEMORY_TYPE_WT, IA32_MTRR_MEMORY_TYPE_WB}

\* C20: on a machine whose MTRRs are enabled, if the address of a 2 MiB leaf
\* is covered by a multi-type combination without UC other than {WT, WB}, or
\* by an MTRR of undefined type, no EPT is built (the construction returns
\* failure, nothing it built remains, enable does not succeed); and no leaf
\* ever carries the error code truncated to 3 bits as its memory type.
C20_InvalidMtrrsFailEnable ==
  (hw.mtrr /\ hw.mtrrEnable) =>
    /\ (\E d \in PdIndices : InvalidCombination(AddressOf(d, 0))) =>
         /\ buildIndex = 0
         /\ phase # "running"
         /\ \A c \in Cores, d \in PdIndices : pd[c][d] = ZeroPdE
    /\ \A c \in Cores, d \in PdIndices :
         pd[c][d].isLargePage =>
           pd[c][d].memoryType # IA32_MTRR_MEMORY_TYPE_ERR % (2 ^ EPT_MEMORY_TYPE_BITS)

(* ----------------------------- C21 -------------------------------------- *)
\* the four bytes of a positive INT32 as they lie in memory, least
\* significant byte first
LittleEndianBytes(value) ==
  <<value % 256, (value \div 256) % 256, (value \div 65536) % 256, value \div 16777216>>
\* the ASCII codes of four characters
Text(chars) == [i \in 1 .. 4 |-> Ascii[chars[i]]]
\* bit 31 of an INT32, and the INT32 without it
Bit31(value) == value < 0
Low31(value) == IF value < 0 THEN value - INT32_MIN ELSE value
\* core c has left the guest for a CPUID and not since for another reason
CpuidExit(c) == bugCheck = BSOD_NONE /\ exits[c].vmcs.exitReason = VMEXIT_CPUID
\* what the guest had in EAX and ECX when it executed CPUID
CpuidLeaf(c) == exits[c].registers.RAX
CpuidSubleaf(c) == exits[c].registers.RCX
\* EAX, EBX, ECX, EDX the guest receives
CpuidResult(c) == <<registers[c].RAX, registers[c].RBX, registers[c].RCX, registers[c].RDX>>

\* C21: after a CPUID exit EAX, EBX, ECX and EDX of the guest hold what the
\* processor returns for the leaf in EAX and the subleaf in ECX, except that
\* for leaf 0 the bytes of EBX, EDX, ECX spell "Avoc", "adoI", "ntel" and for
\* leaf 1 bit 31 of ECX is set and its other bits are the processor's; for
\* every other leaf the four registers are the processor's.
C21_CpuidCloak ==
  \A c \in Cores :
    CpuidExit(c) =>
      LET processor == cpuidex(CpuidLeaf(c), CpuidSubleaf(c))
          guest == CpuidResult(c)
      IN IF CpuidLeaf(c) = 0
         THEN /\ guest[1] = processor[1]
              /\ LittleEndianBytes(guest[2]) = Text(<<"A", "v", "o", "c">>)
              /\ LittleEndianBytes(guest[4]) = Text(<<"a", "d", "o", "I">>)
              /\ LittleEndianBytes(guest[3]) = Text(<<"n", "t", "e", "l">>)
         ELSE IF CpuidLeaf(c) = 1
         THEN /\ guest[1] = processor[1]
              /\ guest[2] = processor[2]
              /\ Bit31(guest[3])
              /\ Low31(guest[3]) = Low31(processor[3])
              /\ ~Bit31(processor[3])
              /\ guest[4] = processor[4]
         ELSE guest = processor

\* the guest has executed CPUID for leaf 1
C21_Witness == \E c \in Cores : CpuidExit(c) /\ CpuidLeaf(c) = 1 /\ Bit31(registers[c].RCX)

(* ----------------------------- C22 -------------------------------------- *)
\* this step is a VM exit of core c for a VMCALL
VmcallStep(c) ==
  /\ exits'[c].vmcs.exitReason = VMEXIT_VMCALL
  /\ exits'[c] # exits[c]
\* RCX of the guest at the exit this step handles, a UINT64
VmcallCode(c) == [upper |-> exits'[c].registers.upper.RCX, lower |-> exits'[c].registers.RCX]
\* this step stores a record for the three pages in RDX, R8, R9 in a free slot
StoresRecord(c) ==
  \E i \in MappingIndices :
    /\ ~changedMappings[c][i].valid
    /\ changedMappings'[c][i] = [guestAddress |-> exits'[c].registers.RDX,
                                 hostRwAddress |-> exits'[c].registers.R8,
                                 hostFetchAddress |-> exits'[c].registers.R9, valid |-> TRUE]
\* this step invalidates the valid record keyed by the page in RDX
DropsRecord(c) ==
  \E i \in MappingIndices :
    /\ changedMappings[c][i].valid
    /\ changedMappings[c][i].guestAddress = exits'[c].registers.RDX
    /\ ~changedMappings'[c][i].valid
VmcallDispatch(c) ==
  LET code == VmcallCode(c)
      returnsStatus == registers'[c].RAX \in {STATUS_SUCCESS, STATUS_UNSUCCESSFUL}
  IN IF code = [upper |-> -1, lower |-> 0]
     THEN /\ registers'[c].RAX = STATUS_SUCCESS
          /\ exits'[c].initiateShutdown
          /\ CoreState(c)' = CoreState(c)
     ELSE IF code = [upper |-> 0, lower |-> 987959]
     THEN /\ returnsStatus
          /\ registers'[c].RAX = STATUS_SUCCESS <=> StoresRecord(c)
          /\ registers'[c].RAX # STATUS_SUCCESS => CoreState(c)' = CoreState(c)
          /\ ~exits'[c].initiateShutdown
     ELSE IF code = [upper |-> 0, lower |-> 991543]
     THEN /\ returnsStatus
          /\ registers'[c].RAX = STATUS_SUCCESS <=> DropsRecord(c)
          /\ registers'[c].RAX # STATUS_SUCCESS => CoreState(c)' = CoreState(c)
          /\ ~exits'[c].initiateShutdown
     ELSE /\ registers'[c].RAX = exits'[c].registers.RAX
          /\ CoreState(c)' = CoreState(c)
          /\ ~exits'[c].initiateShutdown
\* the value VMEXIT_handler returned for the last exit of core c is TRUE only
\* for a VMCALL with the shutdown code
ShutdownOnlyByCode(c) ==
  exits'[c].initiateShutdown =>
    /\ exits'[c].vmcs.exitReason = VMEXIT_VMCALL
    /\ VmcallCode(c) = [upper |-> -1, lower |-> 0]

\* C22: a VMCALL exit dispatches on the 64 bits of RCX: 0xFFFFFFFF00000000
\* sets RAX to success and makes VMEXIT_handler return TRUE; 0xF1337 and
\* 0xF2137 run install and remove and leave their status in RAX; every other
\* value leaves RAX, the mapping table, the split arena and the EPT as they
\* were. VMEXIT_handler returns TRUE for no other exit.
C22_VmcallDispatch ==
  [][\A c \in Cores : (VmcallStep(c) => VmcallDispatch(c)) /\ ShutdownOnlyByCode(c)]_vars

\* the guest has executed VMCALL with a code whose bits 31:0 are the install
\* code and whose upper bits are not zero
C22_Witness ==
  \E c \in Cores :
    /\ exits[c].vmcs.exitReason = VMEXIT_VMCALL
    /\ exits[c].registers.RCX = VMEXIT_VMCALL_MAP_PAGE
    /\ exits[c].registers.upper.RCX # 0
    /\ ~exits[c].initiateShutdown
    /\ \E d \in Cores : changedMappings[d][0].valid

(* ----------------------------- C23 -------------------------------------- *)
\* the last exit of core c was handled: its reason is one VMEXIT_handler
\* knows and no handler bug-checked
HandledExit(c) ==
  /\ bugCheck = BSOD_NONE
  /\ exits[c].vmcs.exitReason \in {VMEXIT_CPUID, VMEXIT_VMCALL, VMEXIT_EPT_VIOLATION}
\* how often the handlers of the last exit of core c wrote VMCS field f
Writes(c, f) == Cardinality({i \in DOMAIN exits[c].effects : exits[c].effects[i] = f})

\* C23: after a handled VM exit the guest RIP of the VMCS is the RIP at the
\* exit plus the VM-exit instruction length, written once, when the exit was
\* a CPUID or a VMCALL (failing installs and removes and unknown codes
\* included), and is the RIP at the exit, not written, when it was an EPT
\* violation; the guest RSP is written back in both cases.
C23_RipAdvance ==
  \A c \in Cores :
    HandledExit(c) =>
      /\ IF exits[c].vmcs.exitReason = VMEXIT_EPT_VIOLATION
         THEN /\ vmcs[c].guestRip = exits[c].vmcs.guestRip
              /\ Writes(c, "guestRip") = 0
         ELSE /\ vmcs[c].guestRip = exits[c].vmcs.guestRip + exits[c].vmcs.instructionLength
              /\ Writes(c, "guestRip") = 1
      /\ vmcs[c].guestRsp = exits[c].vmcs.guestRsp
      /\ Writes(c, "guestRsp") = 1

\* C23 for the builds that read the const locals after __vmx_vmread wrote them
C23_RipAdvanceWhenRead == build = ReadingBuild => C23_RipAdvance

(* ----------------------------- C24 -------------------------------------- *)
\* this step is a VM exit of core c
ExitStep(c) == exits'[c] # exits[c] \/ (bugCheck' # bugCheck /\ exits'[c] # NoExit)
\* before this step core c holds no valid record keyed by the page of the
\* guest-physical address of the exit
NoRecordForExit(c) ==
  LET exitAddr == exits'[c].vmcs.guestPhysicalAddress
  IN ~\E i \in MappingIndices :
        /\ changedMappings[c][i].valid
        /\ exitAddr.upper = 0
        /\ changedMappings[c][i].guestAddress = exitAddr.lower - (exitAddr.lower % 4096)
\* the exit qualification names no kind of access
NoAccessKind(c) ==
  LET q == exits'[c].vmcs.exitQualification
  IN ~q.dataRead /\ ~q.dataWrite /\ ~q.instructionFetch
EptKept(c) == pd'[c] = pd[c] /\ splitBuffer'[c] = splitBuffer[c]

\* C24: a VM exit with a reason other than CPUID (10), VMCALL (18) and EPT
\* violation (48) ends in a bug check; so does an EPT violation on a page
\* without a valid record on the core and an EPT violation whose
\* qualification names neither a data read, a data write nor an instruction
\* fetch, and these two change no EPT entry.
C24_FatalFaults ==
  [][\A c \in Cores :
       ExitStep(c) =>
         /\ exits'[c].vmcs.exitReason \notin {10, 18, 48} => bugCheck' # BSOD_NONE
         /\ (exits'[c].vmcs.exitReason = 48 /\ (NoRecordForExit(c) \/ NoAccessKind(c))) =>
              (bugCheck' # BSOD_NONE /\ EptKept(c))]_vars

\* an EPT violation without a kind of access on a page that has a record
C24_Witness ==
  \E c \in Cores :
    /\ bugCheck = BSOD_VMEXIT_EPT_UNKNOWN
    /\ exits[c].vmcs.exitReason = VMEXIT_EPT_VIOLATION
    /\ \E i \in MappingIndices : changedMappings[c][i].valid

(* ----------------------------- C29 -------------------------------------- *)
\* the positions of operation f among the operations of the exit that this
\* step performs on core c
PositionsOf(c, f) == {i \in DOMAIN exits'[c].effects : exits'[c].effects[i] = f}
\* this step changes a paging entry that core c walks
EptMutated(c) == exits'[c] # exits[c] /\ (pd'[c] # pd[c] \/ splitBuffer' # splitBuffer)
\* the exit invalidates after its last write of a leaf and, when the guest is
\* resumed, before the write-back of RSP that ends the handler
InvalidatedAfterMutation(c) ==
  /\ \A i \in PositionsOf(c, "EPT_changeMapping") :
       \E j \in PositionsOf(c, "VMX_inveptAll") :
         /\ j > i
         /\ bugCheck' = BSOD_NONE => \E k \in PositionsOf(c, "guestRsp") : k > j
  /\ EptMutated(c) => PositionsOf(c, "VMX_inveptAll") # {}
\* this step is an install or a remove on core c that returns a failure in RAX
FailingInstallOrRemove(c) ==
  /\ VmcallStep(c)
  /\ VmcallCode(c) \in {[upper |-> 0, lower |-> 987959], [upper |-> 0, lower |-> 991543]}
  /\ registers'[c].RAX < 0

\* C29: every write of an EPT leaf by a successful install, a successful
\* remove or an EPT-violation flip is followed in the same VM exit, before the
\* guest resumes, by an INVEPT of all contexts on that core; an install or
\* remove that fails invalidates nothing and changes no paging entry.
C29_InvalidateAfterMutation ==
  [][\A c \in Cores :
       /\ exits'[c] # exits[c] => InvalidatedAfterMutation(c)
       /\ FailingInstallOrRemove(c) =>
            /\ PositionsOf(c, "VMX_inveptAll") = {}
            /\ PositionsOf(c, "EPT_changeMapping") = {}
            /\ pd' = pd /\ splitBuffer' = splitBuffer
            /\ changedMappings' = changedMappings]_vars

\* a remove has restored the identity leaf and invalidated
C29_Witness ==
  \E c \in Cores :
    /\ exits[c].vmcs.exitReason = VMEXIT_VMCALL
    /\ exits[c].registers.RCX = VMEXIT_VMCALL_UNMAP_PAGE
    /\ registers[c].RAX = STATUS_SUCCESS
    /\ \E i \in DOMAIN exits[c].effects : exits[c].effects[i] = "VMX_inveptAll"

(* ----------------------------- C25 -------------------------------------- *)
\* the state of block b of the EPT structure of core c
BlockOf(c, b) == heap.ept[c][b]
\* VMM_enable has returned its failure to DriverEntry
EnableReturnedFailure == phase = "failed"
\* nothing of the virtualization is left: no core is marked or in VMX
\* operation, every block of every EPT structure that was built has been
\* freed once and no block of a structure that failed to build is left
NothingLeft ==
  /\ status < 0
  /\ \A c \in Cores :
       /\ ~isVirtualized[c]
       /\ vmx[c] = "off"
       /\ \A b \in 1 .. 3 : BlockOf(c, b) \in {"none", "freed"}
       /\ eptp[c] # 0 => \A b \in 1 .. 3 : BlockOf(c, b) = "freed"
\* a core that had launched leaves the guest by the shutdown VMCALL
LaunchedShutDown ==
  \A c \in Cores :
    isVirtualized[c] =>
      /\ exits'[c].vmcs.exitReason = 18
      /\ exits'[c].registers.upper.RCX = -1 /\ exits'[c].registers.RCX = 0
      /\ exits'[c].initiateShutdown
      /\ vmx'[c] = "off"

\* C25: when the EPT construction fails for a core or a core fails a step of
\* its virtualization, VMM_enable returns a failure status, and at its return
\* no core is virtualized, every core that had launched has executed the
\* shutdown VMCALL and every EPT structure that was built has been freed
\* exactly once.
C25_NoPartialVirtualization ==
  [][/\ (phase = "enabling" /\ phase' = "disabling") => status' < 0
     /\ (phase = "disabling" /\ phase' = "destroying") => LaunchedShutDown
     /\ EnableReturnedFailure' => NothingLeft']_vars

\* one core had launched, another failed, and VMM_enable has returned
C25_Witness ==
  /\ EnableReturnedFailure
  /\ \E c \in Cores : exits[c].initiateShutdown
  /\ \E c \in Cores : ~exits[c].initiateShutdown /\ eptp[c] # 0

(* ----------------------------- C30 -------------------------------------- *)
\* this step of VMM_disable frees a block of an EPT structure
FreesEpt == phase \in {"disabling", "destroying"} /\ heap'.ept # heap.ept
\* this step frees the context with the per-core state array
FreesContext == heap'.context # heap.context
\* this step issues a VMCALL with the shutdown code on core c
ShutdownVmcall(c) ==
  /\ exits'[c] # exits[c]
  /\ exits'[c].vmcs.exitReason = 18
  /\ exits'[c].registers.upper.RCX = -1 /\ exits'[c].registers.RCX = 0

\* C30: VMM_disable frees no EPT structure before every virtualized core has
\* completed the shutdown VMCALL and has its isVirtualized flag cleared; the
\* shutdown VMCALL is issued only on cores whose flag is TRUE, and on each of
\* them; the per-core state array is freed only after every EPT structure
\* has been destroyed.
C30_DisableOrdering ==
  [][/\ FreesEpt => \A c \in Cores : ~isVirtualized[c]
     /\ \A c \in Cores :
          /\ ShutdownVmcall(c) => isVirtualized[c]
          /\ (phase = "disabling" /\ phase' # phase /\ isVirtualized[c]) =>
               (ShutdownVmcall(c) /\ exits'[c].initiateShutdown /\ ~isVirtualized'[c])
     /\ FreesContext =>
          \A c \in Cores : \A b \in 1 .. 3 : heap.ept[c][b] # "allocated"]_vars

\* DriverUnload has run to its end on a virtualized machine of two cores
C30_Witness ==
  /\ phase = "unloaded"
  /\ status = 0
  /\ noOfLogicalCores = 2
  /\ \A c \in Cores : exits[c].initiateShutdown /\ heap.ept[c][1] = "freed"
  /\ heap.context = "freed"

(* ----------------------------- C26 -------------------------------------- *)
\* requests whose input buffer is too short for the pointers of the request,
\* and requests with a control code the device does not know
ShortRequests ==
  {[ioControlCode |-> 2247900, inputBufferLength |-> len, arguments |-> in] :
     len \in {0, 8, 16, 23}, in \in {<<0, 0, 0>>, <<GuestOf(1), RwOf(1), 0>>}}
  \cup {[ioControlCode |-> 2262236, inputBufferLength |-> len, arguments |-> <<0, 0, 0>>] :
          len \in {0, 7}}
UnknownRequests ==
  {[ioControlCode |-> code, inputBufferLength |-> 24,
    arguments |-> <<GuestOf(1), RwOf(1), FetchOf(1)>>] : code \in {0, 2247904}}
\* the step leaves every core, the driver and the pool as they are: no VM
\* exit, so no broadcast, took place
DeviceStateKept ==
  /\ exits' = exits /\ registers' = registers /\ vmcs' = vmcs
  /\ pd' = pd /\ splitBuffer' = splitBuffer /\ noOfUsedSplits' = noOfUsedSplits
  /\ changedMappings' = changedMappings /\ bugCheck' = bugCheck
  /\ isVirtualized' = isVirtualized /\ eptp' = eptp /\ vmx' = vmx /\ heap' = heap
  /\ phase' = phase /\ status' = status

\* C26: a MAP request with an input buffer shorter than 3 pointers and an
\* UNMAP request with one shorter than 1 pointer complete with
\* STATUS_INVALID_PARAMETER without a broadcast and without a change of any
\* core's state; a request with an unknown control code completes with an
\* error and changes nothing; create and close complete with success and
\* change nothing.
C26_DeviceRequests ==
  [][/\ \A r \in ShortRequests :
          DeviceControl(r.ioControlCode, r.inputBufferLength, r.arguments) =>
            (ioStatus' = -1073741811 /\ DeviceStateKept)
     /\ \A r \in UnknownRequests :
          DeviceControl(r.ioControlCode, r.inputBufferLength, r.arguments) =>
            (ioStatus' < 0 /\ DeviceStateKept)
     /\ (DeviceCreate \/ DeviceClose) => (ioStatus' = 0 /\ DeviceStateKept)]_vars

\* a request with a short buffer completed while a page is installed
C26_Witness ==
  /\ ioStatus = STATUS_INVALID_PARAMETER
  /\ \E c \in Cores : \E i \in MappingIndices : changedMappings[c][i].valid

(* ----------------------------- C27 -------------------------------------- *)
\* the page table a directory entry with frame number pfn points at, in the
\* split arenas pts
TableAt(pts, pfn) ==
  pts[(pfn - ContextBasePfn) \div 32][(pfn - ContextBasePfn) % 32]
\* the translation of 4 KiB page i of the 2 MiB region d of core c by the page
\* directories pds and the split arenas pts: host frame, permissions, type
PageTranslation(pds, pts, c, d, i) ==
  LET e == pds[c][d]
      t == TableAt(pts, e.pageFrameNumber)[i]
  IN IF e.isLargePage
     THEN [frame |-> 512 * e.pageFrameNumber + i, read |-> e.readAccess,
           write |-> e.writeAccess, fetch |-> e.fetchAccess, type |-> e.memoryType]
     ELSE [frame |-> t.pageFrameNumber, read |-> e.readAccess /\ t.readAccess,
           write |-> e.writeAccess /\ t.writeAccess, fetch |-> e.fetchAccess /\ t.fetchAccess,
           type |-> t.memoryType]
\* this step splits the 2 MiB leaf d of core c
SplitStep(c, d) == pd[c][d].isLargePage /\ ~pd'[c][d].isLargePage
\* the pages of the region that the step of the split translates differently:
\* the page that the EPT_changeMapping of the split writes afterwards
Retranslated(c, d) ==
  {i \in PtIndices : PageTranslation(pd', splitBuffer', c, d, i) # PageTranslation(pd, splitBuffer, c, d, i)}

\* C27: a successful splitPage of a 2 MiB leaf with frame P and memory type T
\* leaves a directory entry with read = write = fetch = 1 and the large-page
\* bit clear that points at a new page table whose entry i has frame
\* 512 * P + i, read = write = fetch = 1 and memory type T, so that every
\* address of the region translates as before the split; of these entries
\* EPT_changeMapping, which called splitPage, then rewrites one.
C27_SplitPreservesTranslation ==
  [][\A c \in Cores : \A d \in PdIndices :
       SplitStep(c, d) =>
         /\ pd'[c][d].readAccess /\ pd'[c][d].writeAccess /\ pd'[c][d].fetchAccess
         /\ TableAt(splitBuffer, pd'[c][d].pageFrameNumber) = [i \in PtIndices |-> ZeroPtE]
         /\ \A i \in PtIndices :
              LET t == TableAt(splitBuffer', pd'[c][d].pageFrameNumber)[i]
              IN /\ t.memoryType = pd[c][d].memoryType
                 /\ i \notin Retranslated(c, d) =>
                      /\ t.pageFrameNumber = 512 * pd[c][d].pageFrameNumber + i
                      /\ t.readAccess /\ t.writeAccess /\ t.fetchAccess
         /\ Cardinality(Retranslated(c, d)) <= 1]_vars

\* region 1 has been split: its directory entry points at a page table
C27_Witness ==
  \E c \in Cores : \E d \in PdIndices :
    /\ d > 0
    /\ ~pd[c][d].isLargePage /\ pd[c][d].readAccess
    /\ \E i \in PtIndices :
         LET t == TableAt(splitBuffer, pd[c][d].pageFrameNumber)[i]
         IN t.readAccess /\ t.pageFrameNumber = 512 * d + i

(* ----------------------------- C28 -------------------------------------- *)
\* the VM exit of this step on core c calls EPT_changeMapping and it succeeds
ChangesMapping(c) ==
  /\ exits'[c] # exits[c]
  /\ \E k \in DOMAIN exits'[c].effects : exits'[c].effects[k] = "EPT_changeMapping"
\* the record the EPT-violation handler finds for the address of the exit
RecordOfExit(c) ==
  LET page == exits'[c].vmcs.guestPhysicalAddress.lower
                - (exits'[c].vmcs.guestPhysicalAddress.lower % 4096)
      hits == {k \in MappingIndices :
                 changedMappings[c][k].valid /\ changedMappings[c][k].guestAddress = page}
  IN changedMappings[c][CHOOSE k \in hits : \A other \in hits : k <= other]
\* the arguments of that call: of an install (source, source, 0, 0), of a
\* remove (source, source, 1, 1), of a flip the record's target of the kind
\* of the access
CallOf(c) ==
  LET frame == exits'[c].registers
      q == exits'[c].vmcs.exitQualification
  IN IF exits'[c].vmcs.exitReason = 18
     THEN [source |-> frame.RDX, target |-> frame.RDX,
           rw |-> frame.RCX = 991543, fetch |-> frame.RCX = 991543]
     ELSE IF q.dataRead \/ q.dataWrite
     THEN [source |-> RecordOfExit(c).guestAddress, target |-> RecordOfExit(c).hostRwAddress,
           rw |-> TRUE, fetch |-> FALSE]
     ELSE [source |-> RecordOfExit(c).guestAddress, target |-> RecordOfExit(c).hostFetchAddress,
           rw |-> FALSE, fetch |-> TRUE]
\* directory entry and table entry of an address below 512 GiB
DirectoryIndexOf(address) == (address \div 2097152) % 512
TableIndexOf(address) == (address \div 4096) % 512
\* the split arenas after the step are those before it but for the table
\* with frame number pfn
OneTableWritten(pfn) ==
  LET core == (pfn - ContextBasePfn) \div 32
      slot == (pfn - ContextBasePfn) % 32
  IN splitBuffer' = [splitBuffer EXCEPT ![core][slot] = splitBuffer'[core][slot]]

\* C28: EPT_changeMapping(source, target, rw, fetch) sets the frame of the
\* 4 KiB leaf of source to target >> 12, its read and write bits to rw and its
\* fetch bit to fetch, keeps the memory type of that leaf, and changes no
\* other leaf of the page table and no other paging entry of the core, the
\* split of the enclosing 2 MiB leaf apart.
C28_ChangeMappingFrame ==
  [][\A c \in Cores :
       ChangesMapping(c) =>
         LET call == CallOf(c)
             d == DirectoryIndexOf(call.source)
             i == TableIndexOf(call.source)
             leaf == TableAt(splitBuffer', pd'[c][d].pageFrameNumber)[i]
         IN /\ leaf.pageFrameNumber = call.target \div 4096
            /\ leaf.readAccess = call.rw /\ leaf.writeAccess = call.rw
            /\ leaf.fetchAccess = call.fetch
            /\ leaf.memoryType = PageTranslation(pd, splitBuffer, c, d, i).type
            /\ pd'[c] = [pd[c] EXCEPT ![d] = IF pd[c][d].isLargePage THEN pd'[c][d] ELSE @]
            /\ \A i2 \in PtIndices \ {i} :
                 PageTranslation(pd', splitBuffer', c, d, i2)
                   = PageTranslation(pd, splitBuffer, c, d, i2)
            /\ OneTableWritten(pd'[c][d].pageFrameNumber)]_vars

\* a flip has pointed the leaf of an installed page at the fetch target
C28_Witness ==
  \E c \in Cores : \E k \in MappingIndices :
    /\ changedMappings[c][k].valid
    /\ exits[c].vmcs.exitReason = VMEXIT_EPT_VIOLATION
    /\ exits[c].vmcs.exitQualification.instructionFetch
    /\ LET g == changedMappings[c][k].guestAddress
       IN /\ ~pd[c][PdEntry(g)].isLargePage
          /\ TableAt(splitBuffer, pd[c][PdEntry(g)].pageFrameNumber)[PtEntry(g)].pageFrameNumber
               = changedMappings[c][k].hostFetchAddress \div 4096
          /\ changedMappings[c][k].hostFetchAddress # g

(* ----------------------------- C39 -------------------------------------- *)
\* bits 63:32 of RAX, RBX, RCX, RDX of core c
UpperHalves(c) ==
  <<registers[c].upper.RAX, registers[c].upper.RBX, registers[c].upper.RCX,
    registers[c].upper.RDX>>

\* C39: after a CPUID exit each of the 64-bit guest registers RAX, RBX, RCX,
\* RDX is the zero extension of the 32-bit CPUID output: its bits 63:32 are
\* zero, for every leaf and every output, outputs with bit 31 set included.
C39_CpuidZeroExtension ==
  \A c \in Cores : CpuidExit(c) => UpperHalves(c) = <<0, 0, 0, 0>>

(* ----------------------------- C38 -------------------------------------- *)
\* this step is an EPT violation on core c whose handler flips the leaf
FlipExit(c) ==
  /\ exits'[c] # exits[c]
  /\ exits'[c].vmcs.exitReason = 48
  /\ bugCheck' = BSOD_NONE
\* the split arenas after the step are those before it but for the entry of
\* the page of address a in the table the directory entry of core c points at
OneLeafWritten(c, a) ==
  LET pfn == pd[c][DirectoryIndexOf(a)].pageFrameNumber
      core == (pfn - ContextBasePfn) \div 32
      slot == (pfn - ContextBasePfn) % 32
      i == TableIndexOf(a)
  IN splitBuffer' = [splitBuffer EXCEPT ![core][slot][i] = splitBuffer'[core][slot][i]]
\* nothing of another core than c changes in this step
OtherCoresKept(c) ==
  \A o \in Cores \ {c} :
    /\ registers'[o] = registers[o] /\ vmcs'[o] = vmcs[o] /\ exits'[o] = exits[o]
    /\ pd'[o] = pd[o] /\ changedMappings'[o] = changedMappings[o]
    /\ noOfUsedSplits'[o] = noOfUsedSplits[o]
    /\ isVirtualized'[o] = isVirtualized[o] /\ vmx'[o] = vmx[o] /\ eptp'[o] = eptp[o]

\* C38: an EPT-violation flip leaves the mapping table of the core, valid
\* flags included, and its split-arena counter unchanged, writes no EPT leaf
\* but that of the faulting page, and changes no state of another core.
C38_FlipFrame ==
  [][\A c \in Cores :
       FlipExit(c) =>
         /\ changedMappings'[c] = changedMappings[c]
         /\ noOfUsedSplits'[c] = noOfUsedSplits[c]
         /\ pd'[c] = pd[c]
         /\ ~pd[c][DirectoryIndexOf(exits'[c].vmcs.guestPhysicalAddress.lower)].isLargePage
         /\ OneLeafWritten(c, exits'[c].vmcs.guestPhysicalAddress.lower)
         /\ OtherCoresKept(c)]_vars

\* the second of two cores has flipped the leaf of its installed page
C38_Witness ==
  /\ noOfLogicalCores = 2
  /\ exits[1].vmcs.exitReason = VMEXIT_EPT_VIOLATION
  /\ bugCheck = BSOD_NONE
  /\ \E k \in MappingIndices : changedMappings[1][k].valid
  /\ EptLeaf(1, GuestOf(1)).readAccess # EptLeaf(0, GuestOf(1)).readAccess

(* ----------------------------- C35 -------------------------------------- *)
\* the directory entry over the guest key of every valid record of every
\* core is a directory entry, no large page
RecordedPagesSplit ==
  \A c \in Cores : \A k \in MappingIndices :
    changedMappings[c][k].valid =>
      ~pd[c][DirectoryIndexOf(changedMappings[c][k].guestAddress)].isLargePage
\* this step is a remove on core c of a page the core holds a record for
RemoveOfRecorded(c) ==
  /\ VmcallStep(c)
  /\ VmcallCode(c) = [upper |-> 0, lower |-> 991543]
  /\ \E k \in MappingIndices :
       changedMappings[c][k].valid /\ changedMappings[c][k].guestAddress = exits'[c].registers.RDX

\* C35: the PD entry over the guest key of every valid mapping record is a
\* directory entry, so the EPT_changeMapping of a flip and of a remove of a
\* recorded page splits nothing and succeeds: the split counter and the page
\* directory stay, the leaf is written, a remove returns success.
C35_RecordedPagesAreSplit ==
  [][/\ RecordedPagesSplit'
     /\ \A c \in Cores :
          (FlipExit(c) \/ RemoveOfRecorded(c)) =>
            /\ noOfUsedSplits' = noOfUsedSplits
            /\ pd' = pd
            /\ PositionsOf(c, "EPT_changeMapping") # {}
            /\ RemoveOfRecorded(c) => registers'[c].RAX = 0]_vars

\* a remove of a recorded page has succeeded while the split arena of the
\* core is in use
C35_Witness ==
  \E c \in Cores :
    /\ exits[c].vmcs.exitReason = VMEXIT_VMCALL
    /\ exits[c].registers.RCX = VMEXIT_VMCALL_UNMAP_PAGE
    /\ registers[c].RAX = STATUS_SUCCESS
    /\ noOfUsedSplits[c] > 0
    /\ \E k \in MappingIndices : changedMappings[c][k].valid

(* ----------------------------- C36 -------------------------------------- *)
\* once the EPTs are built, every page of the window that no valid record of
\* core c keys is reached through a leaf that maps it to itself and grants the three accesses
UnrecordedPagesIdentity ==
  \A c \in Cores : \A a \in Window :
    phase # "running" \/ IsGuestKey(c, a) \/
      LET leaf == EptLeaf(c, a)
      IN /\ leaf.readAccess /\ leaf.writeAccess /\ leaf.fetchAccess
         /\ leaf.pageFrameNumber = a \div 4096
\* the last VM exit of core c is the EPT violation of a read, a write or a
\* fetch of the guest
AccessViolation(c) ==
  /\ exits[c].vmcs.exitReason = 48
  /\ exits[c].vmcs.exitQualification # NoAccess
\* the guest-physical address of the last VM exit of core c lies under the
\* four PML4 entries of 2^39 bytes the build fills
UnderBuiltEntries(c) == exits[c].vmcs.guestPhysicalAddress.upper < 4 * 128

\* C36 as stated: every leaf that denies an access is the leaf of the guest
\* key of a valid record of the core, every other leaf is the identity with
\* the three accesses, and no EPT violation of a guest access ends in the
\* no-mapping bug check.
C36_NoMappingUnreachable ==
  /\ UnrecordedPagesIdentity
  /\ \A c \in Cores : AccessViolation(c) => bugCheck # BSOD_VMEXIT_EPT_NO_MAPPING

\* C36, amended: every leaf that denies an access is the leaf of the guest
\* key of a valid record of the core and every other leaf is the identity
\* with the three accesses; an EPT violation of a guest access under the PML4
\* entries the build fills finds its record and ends in no bug check, one at
\* or above them ends in the no-mapping bug check.
C36_NoMappingUnderBuiltEntries ==
  /\ UnrecordedPagesIdentity
  /\ \A c \in Cores :
       AccessViolation(c) =>
         IF UnderBuiltEntries(c)
         THEN /\ bugCheck = BSOD_NONE
              /\ \E i \in DOMAIN exits[c].effects : exits[c].effects[i] = "EPT_changeMapping"
         ELSE bugCheck = BSOD_VMEXIT_EPT_NO_MAPPING

\* the guest touched a mapped page, its violation found the record and
\* flipped the leaf, which denies an access while the core holds the record
C36_Witness ==
  \E c \in Cores :
    /\ AccessViolation(c) /\ UnderBuiltEntries(c)
    /\ bugCheck = BSOD_NONE
    /\ \E k \in ValidRecords(c) :
         LET leaf == EptLeaf(c, changedMappings[c][k].guestAddress)
         IN ~leaf.fetchAccess \/ ~leaf.readAccess

(* ----------------------------- C31 -------------------------------------- *)
\* the processor completes a data read, a data write and an instruction
\* fetch through the leaf without an EPT violation
ReadPasses(leaf) == leaf.readAccess
WritePasses(leaf) == leaf.writeAccess
FetchPasses(leaf) == leaf.fetchAccess
\* the leaf core c walks for the page of its last VM exit
LeafOfExit(c) == EptLeaf(c, exits[c].vmcs.guestPhysicalAddress.lower)

\* C31: right after the EPT violation of a data read or write of a mapped
\* page, a read and a write of the page pass without another violation and a
\* fetch from it traps; right after the violation of a fetch, a fetch passes
\* and a read and a write trap. The access that trapped therefore passes when
\* it is repeated: one violation per pure data access or pure fetch.
C31_OneViolationPerAccess ==
  [][\A c \in Cores :
       FlipExit(c) =>
         LET q == exits'[c].vmcs.exitQualification
             leaf == LeafOfExit(c)'
         IN /\ (q.dataRead \/ q.dataWrite) =>
                 ReadPasses(leaf) /\ WritePasses(leaf) /\ ~FetchPasses(leaf)
            /\ (~q.dataRead /\ ~q.dataWrite /\ q.instructionFetch) =>
                 FetchPasses(leaf) /\ ~ReadPasses(leaf) /\ ~WritePasses(leaf)
            /\ q.dataRead => ReadPasses(leaf)
            /\ q.dataWrite => WritePasses(leaf)
            /\ q.instructionFetch => FetchPasses(leaf)]_vars

\* a write to a mapped page trapped and the write now passes while a fetch
\* would trap
C31_Witness ==
  \E c \in Cores :
    /\ exits[c].vmcs.exitReason = 48
    /\ bugCheck = BSOD_NONE
    /\ exits[c].vmcs.exitQualification.dataWrite
    /\ ~exits[c].vmcs.exitQualification.dataRead
    /\ WritePasses(LeafOfExit(c)) /\ ~FetchPasses(LeafOfExit(c))

(* ----------------------------- C37 -------------------------------------- *)
\* C37: an instruction of the guest that touches a mapped page retires after
\* finitely many EPT violations, also when its bytes and its operand lie in
\* the same mapped page: an instruction the processor executes is eventually
\* behind it.
C37_InstructionRetires == instruction[0].running ~> ~instruction[0].running

(* ----------------------------- C40 -------------------------------------- *)
\* the last VM exit of core c is the VMCALL of an install or a remove of a
\* page-aligned guest address
AlignedRequest(c) ==
  /\ exits[c].vmcs.exitReason = 18
  /\ exits[c].registers.upper.RCX = 0
  /\ exits[c].registers.RCX \in {987959, 991543}
  /\ exits[c].registers.RDX % 4096 = 0
\* the handlers of the last VM exit of core c followed a PML4 entry that
\* points at no PDPT
FollowedEmptyEntry(c) ==
  \E i \in DOMAIN exits[c].effects : exits[c].effects[i] = "Memory_getVirtualAddress(0)"

\* C40: an install or a remove of a page-aligned guest address, also one at
\* or above pml4Count x 512 GiB, follows populated PML4 entries only: it
\* writes a leaf or returns a failure status, no bug check, and a request for
\* an address in an entry that points at no PDPT returns a failure status.
C40_PopulatedEntriesOnly ==
  \A c \in Cores :
    AlignedRequest(c) =>
      /\ ~FollowedEmptyEntry(c)
      /\ bugCheck = BSOD_NONE
      /\ registers[c].RAX # 0 \/
           \E i \in DOMAIN exits[c].effects : exits[c].effects[i] = "EPT_changeMapping"
      /\ (exits[c].registers.upper.RDX \div 128) % 512 >= Cardinality({p \in Pml4Indices : pml4[c][p].readAccess})
           => registers[c].RAX # 0

(* ----------------------------- C32 -------------------------------------- *)
\* the number of PML4 entries the claim gives for a physical-address width
CountOfWidth(width) == IF width <= 39 THEN 1 ELSE IF width = 40 THEN 2 ELSE 4
\* the entries of the PML4 of core c that point at a PDPT
PopulatedEntries(c) == {p \in Pml4Indices : pml4[c][p].pageFrameNumber # 0}

\* C32: for every physical-address width the processor reports, the PML4 of
\* a built EPT has min(2^max(width - 39, 0), 4) entries that point at a PDPT,
\* the first ones: 1 for widths up to 39, 2 for width 40, 4 from width 41 on;
\* the shift is between 0 and 31; EPT_destroyEPTStructure works with the
\* same count: it frees the PML4, the PDPT and the page directories of a
\* built EPT.
C32_Pml4Count ==
  LET width == hw.physicalAddressBits
      shift == IF width > 39 THEN width - 39 ELSE 0
      power == 2 ^ shift
  IN /\ shift \in 0 .. 31
     /\ CountOfWidth(width) = IF power < 4 THEN power ELSE 4
     /\ \A c \in Cores :
          /\ eptp[c] = 0 => PopulatedEntries(c) = {}
          /\ eptp[c] # 0 => PopulatedEntries(c) = 0 .. (CountOfWidth(width) - 1)
          /\ (eptp[c] # 0 /\ phase = "unloading") =>
               \A b \in 1 .. 3 : heap.ept[c][b] = "freed"

\* the EPT of a processor with 40 physical address bits was built with two
\* PML4 entries and has been destroyed
C32_Witness ==
  /\ hw.physicalAddressBits = 40
  /\ phase = "unloading"
  /\ \E c \in Cores : eptp[c] # 0 /\ Cardinality(PopulatedEntries(c)) = 2

(* ----------------------------- C33 -------------------------------------- *)
\* this step is an iteration of the EPT loop of VMM_enable that built the
\* EPT of core c
BuildStep(c) == buildIndex = c /\ buildIndex' = c + 1
\* the number of the 2 MiB frame of the guest-physical address with PML4
\* index p, PDPT index q and PD index d, counted from the address in MiB
FrameOf2MiB(p, q, d) == (p * 524288 + q * 1024 + d * 2) \div 2
\* entry is a 2 MiB leaf that grants the three accesses and maps to frame
IdentityLargePage(entry, frame) ==
  /\ entry.isLargePage
  /\ entry.readAccess /\ entry.writeAccess /\ entry.fetchAccess
  /\ entry.pageFrameNumber = frame
\* the PDPT and PD indices at which the entries setupPml4Entry writes are
\* looked at: the first, the second and the last of the 512
SampledIndices == {0, 1, 511}
\* after the step the PML4 of core c has its first entries populated, as
\* many as the width of the processor asks for, and every entry
\* setupPml4Entry writes under them is the identity 2 MiB leaf
PopulatedBelowCount(c) ==
  /\ \A p \in Pml4Indices :
       (pml4'[c][p].pageFrameNumber # 0) = (p < CountOfWidth(hw.physicalAddressBits))
  /\ \A p \in Pml4Indices : \A q \in SampledIndices, d \in SampledIndices :
       p < CountOfWidth(hw.physicalAddressBits) =>
         IdentityLargePage(IdentityPdE(p, q, d), FrameOf2MiB(p, q, d))

\* C33 as stated: after the build of an EPT every PD entry under a populated
\* PML4 entry is a 2 MiB leaf with read = write = fetch = 1 whose frame is
\* that of the guest-physical address it stands for, and the PML4 entries
\* from pml4Count on are unpopulated.
C33_IdentityLargePages ==
  [][\A c \in Cores :
       BuildStep(c) =>
         /\ PopulatedBelowCount(c)
         /\ \A d \in PdIndices : IdentityLargePage(pd'[c][d], FrameOf2MiB(0, 0, d))]_vars

\* C33, amended: after the build of an EPT every PD entry under a populated
\* PML4 entry is such an identity 2 MiB leaf, but the first PD entry of the
\* first PDPT entry of the first PML4 entry when the fixed-range MTRRs are
\* supported and enabled: that entry points at a page table whose 4 KiB
\* leaves grant the three accesses and map each page to itself. The PML4
\* entries from pml4Count on are unpopulated.
C33_IdentityBuild ==
  [][\A c \in Cores :
       BuildStep(c) =>
         /\ PopulatedBelowCount(c)
         /\ \A d \in PdIndices \ {0} : IdentityLargePage(pd'[c][d], FrameOf2MiB(0, 0, d))
         /\ IF hw.mtrr /\ hw.mtrrEnable /\ hw.fixedMtrr
            THEN /\ ~pd'[c][0].isLargePage
                 /\ pd'[c][0].readAccess /\ pd'[c][0].writeAccess /\ pd'[c][0].fetchAccess
                 /\ \A t \in PtIndices :
                      LET leaf == EptLeaf(c, t * 4096)'
                      IN /\ leaf.readAccess /\ leaf.writeAccess /\ leaf.fetchAccess
                         /\ leaf.pageFrameNumber = t
            ELSE IdentityLargePage(pd'[c][0], 0)]_vars

\* an EPT with two populated PML4 entries is built and its first PD entry
\* points at the page table of the fixed-range overlay
C33_Witness ==
  \E c \in Cores :
    /\ eptp[c] # 0
    /\ Cardinality(PopulatedEntries(c)) = 2
    /\ ~pd[c][0].isLargePage
    /\ IdentityLargePage(pd[c][1], 1)
    /\ noOfUsedSplits[c] = 1

(* ----------------------------- C34 -------------------------------------- *)
\* where the range of each fixed-range MSR begins, in KiB, as its name
\* says (00000, 80000, A0000, C0000 .. F8000), how many KiB one of its
\* bytes stands for and how many 4 KiB leaves that makes
FixedRangeLayout ==
  <<[msrIndex |-> 592, base |-> 0, blockSizeKiB |-> 64, leaves |-> 16],
    [msrIndex |-> 600, base |-> 512, blockSizeKiB |-> 16, leaves |-> 4],
    [msrIndex |-> 601, base |-> 640, blockSizeKiB |-> 16, leaves |-> 4],
    [msrIndex |-> 616, base |-> 768, blockSizeKiB |-> 4, leaves |-> 1],
    [msrIndex |-> 617, base |-> 800, blockSizeKiB |-> 4, leaves |-> 1],
    [msrIndex |-> 618, base |-> 832, blockSizeKiB |-> 4, leaves |-> 1],
    [msrIndex |-> 619, base |-> 864, blockSizeKiB |-> 4, leaves |-> 1],
    [msrIndex |-> 620, base |-> 896, blockSizeKiB |-> 4, leaves |-> 1],
    [msrIndex |-> 621, base |-> 928, blockSizeKiB |-> 4, leaves |-> 1],
    [msrIndex |-> 622, base |-> 960, blockSizeKiB |-> 4, leaves |-> 1],
    [msrIndex |-> 623, base |-> 992, blockSizeKiB |-> 4, leaves |-> 1]>>
\* the type the fixed-range MSRs give the 4 KiB page of leaf i, below 1 MiB
FixedRangeTypeOf(msr, i) ==
  LET k == CHOOSE j \in DOMAIN FixedRangeLayout :
             /\ FixedRangeLayout[j].base <= 4 * i
             /\ 4 * i < FixedRangeLayout[j].base + 8 * FixedRangeLayout[j].blockSizeKiB
  IN msr[FixedRangeLayout[k].msrIndex][((4 * i - FixedRangeLayout[k].base)
                                          \div FixedRangeLayout[k].blockSizeKiB) + 1]
AllLeaves == 0 .. 511
\* this step is call k of fillFixedMtrr: it writes once each of the
\* 8 * leaves leaves from the iterator on, byte after byte, and no other
FillsRuns(k) ==
  LET from == overlay.ptIterator
      layout == FixedRangeLayout[k]
  IN /\ layout.leaves = layout.blockSizeKiB \div 4
     /\ overlay'.ptIterator = from + 8 * layout.leaves
     /\ \A i \in AllLeaves :
          IF from <= i /\ i < from + 8 * layout.leaves
          THEN /\ overlay'.written[i] = overlay.written[i] + 1
               /\ overlay'.pt[i] = overlay.msr[layout.msrIndex][((i - from) \div layout.leaves) + 1]
          ELSE /\ overlay'.written[i] = overlay.written[i]
               /\ overlay'.pt[i] = overlay.pt[i]
\* the overlay is laid: leaves 0..255 were written once each and hold the
\* types of the MSRs in address order, the iterator stands behind leaf 255
LaidOverlay(o) ==
  /\ o.ptIterator = 256
  /\ \A i \in AllLeaves :
       IF i <= 255 THEN o.written[i] = 1 /\ o.pt[i] = FixedRangeTypeOf(o.msr, i)
       ELSE o.written[i] = 0

\* C34: the fixed-range overlay takes the eleven fixed-range MSRs in address
\* order and gives each of their 8 bytes to a run of blockSizeKiB / 4
\* consecutive 4 KiB leaves (16, 4, 4 and 1 per byte); the runs cover
\* leaves 0..255 of the first page table with no gap and no overlap, no
\* leaf past 255 is written, and leaves 256..511 keep the memory type they
\* inherited from the split 2 MiB leaf.
C34_FixedRangeOverlay ==
  [][\A k \in DOMAIN FixedRangeLayout :
       overlay.filled = k - 1 /\ overlay'.filled = k =>
         /\ FillsRuns(k)
         /\ overlay'.ptIterator <= 256
         /\ \A i \in AllLeaves : i >= 256 => overlay'.written[i] = 0 /\ overlay'.pt[i] = overlay.pt[i]
         /\ k = 11 => LaidOverlay(overlay')]_vars

\* the eleven MSRs are laid over a table whose types change from run to run
\* and differ from the inherited one at the end of the first MiB
C34_Witness ==
  /\ overlay.filled = 11
  /\ overlay.ptIterator = 256
  /\ overlay.pt[15] # overlay.pt[16]
  /\ overlay.pt[131] # overlay.pt[132]
  /\ overlay.pt[254] # overlay.pt[255]
  /\ overlay.pt[255] # overlay.pt[256]
  /\ overlay.written[255] = 1 /\ overlay.written[256] = 0

====
